---- MODULE Spec2Model ----
(***************************************************************************)
(* Authentication and session lifecycle of the socket backend:             *)
(* the socket handlers of managers/events.rs, the DataService              *)
(* operations of database/service.rs they call, and the repository calls   *)
(* of database/repository.rs behind those.                                 *)
(*                                                                         *)
(* Every request is handled by its own task.  A task is a process p of     *)
(* Procs; pc[p] is the store call it is suspended before, loc[p] its local *)
(* variables.  One action is the completion of one awaited call (on the    *)
(* document store, on the counter mutex or on the timer) together with the *)
(* local computation that follows it up to the next await; a call that     *)
(* reads the clock before its await keeps that reading (loc[p].clock,      *)
(* sweep_clock).  Audit collections (login_events,                         *)
(* connection_error_events, user_registration_events) are not state of the *)
(* model, no operation reads them; an audit insert that is awaited between *)
(* a store call and the emit of the answer is a step of its own.           *)
(*                                                                         *)
(* Collections are sequences in insertion order (find_one and update_one   *)
(* take the first match); otp_verification_events, which is only counted,  *)
(* is a bag of the fields the count filters on plus is_success.  The clock  *)
(* is in minutes and is observed once per OTP lifetime, so that            *)
(* now < expires_at, now = expires_at and now > expires_at all occur.      *)
(*                                                                         *)
(* emitted and lastCall show what the last step sent to the client and     *)
(* which service call it made; a step that does neither clears them.       *)
(*                                                                         *)
(* Tasks, mobile numbers and session tokens are interchangeable: a new     *)
(* request takes the lowest free task, and a request names a mobile number *)
(* or a token that a request named before, or the first unused one.        *)
(*                                                                         *)
(* A behaviour runs one workload (budget), fixed by its initial state: the *)
(* number of logins, of verification attempts, of clock observations, of   *)
(* sweeps, of invalid payloads, of mobile numbers and of tokens.  Each     *)
(* specification explores its workloads side by side; SpecAll runs those   *)
(* of Spec, SpecUsers and SpecSessions; in these the store calls           *)
(* succeed.  SpecRestart adds restarts of the process, SpecFaults failing  *)
(* store calls and failing signatures.                                     *)
(*                                                                         *)
(* SpecService runs the handlers as they are written, set:profile and      *)
(* set:language included, together with the DataService and repository     *)
(* operations that no handler reaches, called directly.  The set:profile   *)
(* handler builds the future of its body inside catch_unwind and never     *)
(* polls it (SetProfile), so the referral operations of DataService        *)
(* (generate_unique_referral_code, update_user_profile_in_register) run    *)
(* only when they are called directly.  SpecLanguage is the set:language   *)
(* workload.  A request or call of these takes one unit of its budget;     *)
(* lastCall.before is userregister as the call found it.                   *)
(***************************************************************************)
EXTENDS Integers, Sequences, FiniteSets, Bags, TLC

\* ---------------------------------------------------------------- bounds
\* Spec, the verification workload: login requests accepted, verification
\* attempts stored or in flight, clock observations after the first
OtpLogins == 2
OtpVerifies == 6
RateLogins == 1
ExpiryVerifies == 2
\* the workload of the sweep
SweepLogins == 2
SweepVerifies == 1
SweepTicks == 2
SweepCalls == 2
SweepTasks == 2
\* the workload of requests with an invalid payload
InvalidLogins == 1
InvalidVerifies == 1
InvalidRequests == 2
\* the workload of one challenge verified to its ceiling by one request at a
\* time, while it expires and is swept
ExhaustSweeps == 1
ExhaustTasks == 1
OtpTicks == 2
OtpMobiles == 1
OtpTokens == 1
\* SpecUsers and SpecRestart, the registration workload
UserLogins == 2
UserVerifies == 1
UserTicks == 1
UserMobiles == 2
UserTokens == 2
\* SpecSessions, the workload of one mobile number with several sessions
SessionLogins == 2
SessionVerifies == 2
SessionTicks == 1
SessionMobiles == 1
SessionTokens == 2
\* SpecFaults, the workload with failing store calls
FaultLogins == 2
FaultVerifies == 2
FaultMobiles == 1
FaultTokens == 1
FaultSweepLogins == 1
FaultSweepVerifies == 1
FaultSweepTicks == 1
FaultSweepCalls == 1
FaultSweepTasks == 2
\* process restarts (SpecRestart only)
MaxRestarts == 1
\* SpecService, the workload of the handlers with set:profile and
\* set:language and of the service operations no handler calls
ServiceLogins == 2
ServiceVerifies == 1
ServiceSweeps == 1
ServiceMobiles == 2
ServiceTokens == 1
ServiceTasks == 2
ServiceCodes == 2
ServiceSetProfiles == 1
ServiceLanguages == 1
ServiceFcmUpdates == 1
ServiceProfileUpdates == 1
ServiceRegisterUpdates == 1
ServiceRepoInserts == 2
\* the workload of the referral operations: calls of
\* generate_unique_referral_code, of update_user_profile_in_register, and
\* the tasks that log in or generate
ServiceGenerates == 1
ServiceReferralUpdates == 2
ServiceReferralTasks == 1
\* SpecLanguage, the workload of set:language
\* the credential service: tokens minted, minutes the clock is followed past
\* the end of a lifetime, identities and sequence numbers minted for
JwtTokens == 1
JwtLateMinutes == 2
JwtUsers == 2
\* the workload with refresh_token: refreshes, and values of each argument
\* of generate_token
JwtRefreshes == 1
JwtRefreshUsers == 1

LanguageLogins == 1
LanguageMobiles == 1
LanguageTokens == 2
LanguageTicks == 2
LanguageTasks == 2
LanguageRequests == 2

\* ------------------------------------------------------ program constants
\* service.rs:465  const MAX_ATTEMPTS: i32 = 5
MAX_ATTEMPTS == 5
\* service.rs:99   now + chrono::Duration::minutes(30)
OTP_LIFETIME_MINUTES == 30
\* service.rs:422  const MAX_ATTEMPTS: u32 = 10, of
\* generate_unique_referral_code
REFERRAL_MAX_ATTEMPTS == 10
\* jwt.rs:39       token_expiry_hours: 24 * 7
TOKEN_EXPIRY_HOURS == 168
\* events.rs:333   .unwrap_or(("unknown".to_string(), 0)): the placeholder
\* identity; real identities (UUID v7) are numbered from 1
UNKNOWN_USER_ID == 0
UNKNOWN_USER_NUMBER == 0

ClockStep == OTP_LIFETIME_MINUTES

\* ------------------------------------------------------------ input sets
Procs == {1, 2}
MobileList == <<"9876543210", "9876543211", "9876543212">>
\* events.rs:176 gen_range(100000000..999999999).to_string()
TokenList == <<"100000001", "100000002", "100000003">>
\* events.rs:177 gen_range(100000..999999): the i32 stored in the challenge
OtpCodes == {123456}
\* the otp string of a verify:otp payload (6 digits, validation.rs:426-447)
OtpStrings == {<<1, 2, 3, 4, 5, 6>>, <<6, 5, 4, 3, 2, 1>>}
\* outcome of ValidationManager::validate_*: Ok, or the code of the error
ValidationOutcomes == {"OK", "MISSING_FIELD"}
\* Option::None, and a JSON key that the payload does not carry
None == "None"
\* the fcm_token of a login payload, and the one of update_user_fcm_token
LoginFcmToken == "fcm-login"
NewFcmToken == "fcm-new"
\* data["fcm_token"] of a verify:otp or set:language payload: neither
\* validator asks for the field, and a payload may carry the token of the
\* device
PayloadFcmTokens == {None, LoginFcmToken}
\* the fields of a set:profile payload
FullNames == {"Asha Rao"}
\* the full_name of a call of update_user_profile
NewFullNames == {"Asha R. Menon"}
States == {"Kerala"}
ProfileData == {"{avatar:1}"}
\* serde_json::Value::Null, the value of a key a payload carries as null
JsonNull == "null"
\* a JSON number above i64::MAX (serde_json holds it as u64), which no BSON
\* integer can hold
JsonU64Max == "18446744073709551615"
\* the fields of a set:language payload
LanguageCodes == {"en"}
LanguageNames == {"English"}
RegionCodes == {"IN"}
Timezones == {"Asia/Kolkata"}
\* validation.rs:578 reads the key and checks nothing: an object or any
\* other JSON value
UserPreferences == {"{theme:dark}", "[1]"}
\* serde_json::json!({}), the empty JSON object
EmptyObject == "{}"
Opt(S) == S \cup {None}

Range(f) == {f[i] : i \in DOMAIN f}
Mobiles == Range(MobileList)
Tokens == Range(TokenList)

VARIABLES
    now,              \* chrono::Utc::now(), minutes
    users,            \* collection userregister
    user_counter,     \* DataService.user_counter (in-process)
    uuid_seq,         \* number of UUID v7 values drawn so far
    challenges,       \* collection login_success_events
    attempts,         \* collection otp_verification_events (bag)
    pc,               \* per task: the store call it waits for
    loc,              \* per task: local variables of the handler
    emitted,          \* the event the last step sent, with its task's locals
    lastCall,         \* the service call the last step made, with its result
    faults,           \* whether store calls may fail in this behaviour
    budget,           \* the workload of this behaviour
    nLogins,          \* login requests accepted so far
    nRestarts,        \* restarts so far
    lostAttempts,     \* history: attempt records whose insert failed
    issued,           \* history: every challenge ever stored
    issuedNumbers,    \* history: numbers handed out in this process run
    runStartedEmpty,  \* history: userregister was empty when this run started
    sweep_clock       \* the clock reading of the pending sweep, -1 when none

vars == <<now, users, user_counter, uuid_seq, challenges, attempts, pc, loc,
          emitted, lastCall, faults, budget, nLogins, nRestarts,
          lostAttempts, issued, issuedNumbers, runStartedEmpty, sweep_clock>>

\* ------------------------------------------------------------- records
NoEvent == [mobile_no |-> "", session_token |-> "", otp |-> 0,
            timestamp |-> -1, expires_at |-> -1]

\* jwt.rs Claims; instants are minutes, as now is
NoClaims == [sub |-> -1, user_number |-> -1, mobile_no |-> "",
             device_id |-> "", fcm_token |-> "", iat |-> -1, exp |-> -1,
             jti |-> -1]

\* a compact JWS: the number of dot-separated segments, the alg of the
\* header, the claims set, and the MAC (the key and what it was computed on)
NoToken == [segments |-> 0, alg |-> "", payload |-> NoClaims,
            signature |-> [key |-> "", alg |-> "", payload |-> NoClaims]]

\* a call of JwtService: its arguments and its Result
NoMint == [token |-> NoToken, user_id |-> -1, user_number |-> -1,
           mobile_no |-> "", device_id |-> "", fcm_token |-> ""]
NoJwtCall == [token |-> NoToken, minted |-> NoMint,
              expected_device_id |-> "", expected_mobile_no |-> "",
              ok |-> FALSE, claims |-> NoClaims, error |-> ""]

\* the Display text of the error a failed store call returns
ErrorTexts == {"connection reset by peer", "server selection timeout"}

\* jwt.rs create_jwt_service: the secret of the service, and any other key
SECRET_KEY == "your-super-secret-jwt-key-change-in-production"

\* jsonwebtoken Validation::default(): leeway 0 up to version 7, 60 seconds
\* from version 8 on (the sources do not pin the version)
Leeways == {0, 1}

\* inputs of generate_token with n values of each argument, and the expected
\* values of the device check
JwtInputs(n) ==
    [user_id : 1 .. n, user_number : 1 .. n,
     mobile_no : {MobileList[i] : i \in 1 .. n},
     device_id : {<<"device-a", "device-b", "device-c">>[i] : i \in 1 .. n},
     fcm_token : {<<LoginFcmToken, NewFcmToken, "fcm-other">>[i] : i \in 1 .. n}]
JwtInstants == {0, 1} \cup ((TOKEN_EXPIRY_HOURS * 60 - 1) .. (TOKEN_EXPIRY_HOURS * 60 + JwtLateMinutes))

\* the optional and required fields of a set:profile payload
NoProfile == [full_name |-> None, state |-> None, referral_code |-> None,
              referred_by |-> None, profile_data |-> None]

\* the fields of a set:language payload
NoLanguage == [language_code |-> None, language_name |-> None,
               region_code |-> None, timezone |-> None,
               user_preferences |-> None]

NoJwt == [sub |-> -1, user_number |-> -1, mobile_no |-> "", signed |-> FALSE]

\* the response a handler has built and sends once its pending audit insert
\* has completed
NoResponse == [event |-> "none", error_code |-> "", details_error |-> ""]

\* saturated is history: MAX_ATTEMPTS attempts were stored for the pair when
\* the request arrived.  clock is the reading of chrono::Utc::now() that the
\* pending store call made before its await.
NoLocals == [handler |-> "none", mobile_no |-> "", session_token |-> "",
             fcm_token |-> None,
             otp |-> 0, provided_otp |-> <<>>, is_new_user |-> FALSE,
             saturated |-> FALSE, gate |-> "none", vres |-> "none",
             user_id |-> UNKNOWN_USER_ID, user_number |-> UNKNOWN_USER_NUMBER,
             user_status |-> "none",
             jwt |-> NoJwt, language |-> NoLanguage,
             generate_attempts |-> 0,
             created_at |-> -1, clock |-> -1, response |-> NoResponse]

NoEmit == [event |-> "none", error_code |-> "", ctx |-> NoLocals,
           details_error |-> ""]

NoCall == [op |-> "none", mobile_no |-> "", session_token |-> "",
           provided_otp |-> <<>>, t |-> -1, event |-> NoEvent,
           count |-> -1, result |-> "none", profile |-> NoProfile,
           language |-> NoLanguage, fcm_token |-> None, before |-> <<>>,
           jwt |-> NoJwtCall, validation |-> ""]

Min(S) == CHOOSE x \in S : \A y \in S : x <= y

\* ------------------------------------------------------- pure functions

\* i32::to_string: the decimal digits of n, most significant first
RECURSIVE to_string(_)
to_string(n) == IF n < 10 THEN <<n>> ELSE Append(to_string(n \div 10), n % 10)

\* repository.rs: find_one(filter) on login_success_events
find_login_success_by_mobile_and_session(mobile_no, session_token) ==
    LET idx == {i \in 1..Len(challenges) :
                    /\ challenges[i].mobile_no = mobile_no
                    /\ challenges[i].session_token = session_token}
    IN  IF idx = {} THEN NoEvent ELSE challenges[Min(idx)]

\* repository.rs: count_documents(filter) on otp_verification_events
\* get_verification_attempts_count that counts for a stored challenge only
get_verification_attempts_count_stored_only(mobile_no, session_token) ==
    LET hit == {e \in DOMAIN attempts :
                    /\ e.mobile_no = mobile_no
                    /\ e.session_token = session_token
                    /\ \E i \in 1 .. Len(challenges) :
                          /\ challenges[i].mobile_no = mobile_no
                          /\ challenges[i].session_token = session_token}
    IN  BagCardinality([e \in hit |-> attempts[e]])

get_verification_attempts_count(mobile_no, session_token) ==
    LET hit == {e \in DOMAIN attempts :
                    /\ e.mobile_no = mobile_no
                    /\ e.session_token = session_token}
    IN  BagCardinality([e \in hit |-> attempts[e]])

\* the gate with the ceiling moved by one (attempts_count <= MAX_ATTEMPTS)
check_otp_attempts_inclusive(attempts_count) == attempts_count <= MAX_ATTEMPTS

\* service.rs check_otp_attempts: is_allowed
check_otp_attempts(attempts_count) == attempts_count < MAX_ATTEMPTS

\* verify_otp without the comparison of the codes
verify_otp_any_code(event, t, otp) ==
    IF event = NoEvent THEN "NotFound"
    ELSE IF t > event.expires_at THEN "Expired"
    ELSE "Success"

\* verify_otp comparing the codes before it looks at the expiry
verify_otp_compare_first(event, t, otp) ==
    IF event = NoEvent THEN "NotFound"
    ELSE IF otp = to_string(event.otp) THEN "Success"
    ELSE IF t > event.expires_at THEN "Expired"
    ELSE "Invalid"

\* verify_otp without the expiry check
verify_otp_no_expiry(event, t, otp) ==
    IF event = NoEvent THEN "NotFound"
    ELSE IF otp = to_string(event.otp) THEN "Success"
    ELSE "Invalid"

\* verify_otp charging a miss as a wrong code
verify_otp_miss_invalid(event, t, otp) ==
    IF event = NoEvent THEN "Invalid"
    ELSE IF t > event.expires_at THEN "Expired"
    ELSE IF otp = to_string(event.otp) THEN "Success"
    ELSE "Invalid"

\* service.rs verify_otp, on the result of the lookup and the clock reading
\* verify_otp that calls a challenge expired from its expires_at on
verify_otp_expired_at_expiry(event, t, otp) ==
    IF event = NoEvent THEN "NotFound"
    ELSE IF t >= event.expires_at THEN "Expired"
    ELSE IF otp = to_string(event.otp) THEN "Success"
    ELSE "Invalid"

verify_otp(event, t, otp) ==
    IF event = NoEvent THEN "NotFound"
    ELSE IF t > event.expires_at THEN "Expired"
    ELSE IF otp = to_string(event.otp) THEN "Success"
    ELSE "Invalid"

\* get_next_user_number without the write to the shared counter
get_next_user_number_no_write(counter) ==
    [counter |-> counter, result |-> counter + 1]

\* get_next_user_number returning the value read before the increment
get_next_user_number_read_first(counter) ==
    [counter |-> counter + 1, result |-> counter]

\* service.rs get_next_user_number: under the mutex, *counter += 1; *counter
get_next_user_number(counter) ==
    [counter |-> counter + 1, result |-> counter + 1]

\* repository.rs: find_one / count_documents on userregister by mobile_no
UserIdx(mobile_no) == {i \in 1..Len(users) : users[i].mobile_no = mobile_no}
user_exists(mobile_no) == UserIdx(mobile_no) # {}
find_user_by_mobile(mobile_no) == users[Min(UserIdx(mobile_no))]

\* events.rs data["fcm_token"].as_str().unwrap_or("unknown")
unwrap_or_unknown(field) == IF field = None THEN "unknown" ELSE field

\* models.rs UserRegister::new; t is its reading of the clock
UserRegister_new(mobile_no, fcm_token, user_id, user_number, t) ==
    [mobile_no |-> mobile_no, user_id |-> user_id, user_number |-> user_number,
     fcm_token |-> fcm_token,
     full_name |-> None, state |-> None, referral_code |-> None,
     referred_by |-> None, language_code |-> None, language_name |-> None,
     region_code |-> None, timezone |-> None, profile_data |-> None,
     user_preferences |-> None,
     last_login_at |-> t, last_login_date |-> None,
     total_logins |-> 0, is_active |-> TRUE]

\* jwt.rs generate_token: the claims of the credential; signing may fail
generate_token(user_id, user_number, mobile_no, sign_ok) ==
    IF sign_ok
    THEN [sub |-> user_id, user_number |-> user_number, mobile_no |-> mobile_no,
          signed |-> TRUE]
    ELSE NoJwt

\* jsonwebtoken: the HS256 MAC of header and claims under a key
hmac(key, alg, payload) == [key |-> key, alg |-> alg, payload |-> payload]

\* jsonwebtoken encode(&Header::default(), &claims, &EncodingKey)
encode(claims, key) ==
    [segments |-> 3, alg |-> "HS256", payload |-> claims,
     signature |-> hmac(key, "HS256", claims)]

\* jwt.rs generate_token with device_id and fcm_token interchanged
JwtService_generate_token_swapped(secret_key, user_id, user_number, mobile_no, device_id, fcm_token, t, jti) ==
    encode([sub |-> user_id, user_number |-> user_number,
            mobile_no |-> mobile_no, device_id |-> fcm_token,
            fcm_token |-> device_id, iat |-> t,
            exp |-> t + TOKEN_EXPIRY_HOURS * 60, jti |-> jti],
           secret_key)

\* jwt.rs JwtService::generate_token at clock reading t, with token id jti
JwtService_generate_token(secret_key, user_id, user_number, mobile_no, device_id, fcm_token, t, jti) ==
    encode([sub |-> user_id, user_number |-> user_number,
            mobile_no |-> mobile_no, device_id |-> device_id,
            fcm_token |-> fcm_token, iat |-> t,
            exp |-> t + TOKEN_EXPIRY_HOURS * 60, jti |-> jti],
           secret_key)

\* jsonwebtoken decode(token, &DecodingKey, &Validation::default()) at clock
\* reading t: three segments, alg HS256, the MAC, then exp with the leeway
decode(token, key, leeway, t) ==
    IF token.segments # 3
    THEN [ok |-> FALSE, claims |-> NoClaims, error |-> "InvalidToken"]
    ELSE IF token.alg # "HS256"
    THEN [ok |-> FALSE, claims |-> NoClaims, error |-> "InvalidAlgorithm"]
    ELSE IF token.signature # hmac(key, token.alg, token.payload)
    THEN [ok |-> FALSE, claims |-> NoClaims, error |-> "InvalidSignature"]
    ELSE IF token.payload.exp < t - leeway
    THEN [ok |-> FALSE, claims |-> NoClaims, error |-> "ExpiredSignature"]
    ELSE [ok |-> TRUE, claims |-> token.payload, error |-> ""]

\* jwt.rs JwtService::verify_token
JwtService_verify_token(secret_key, token, leeway, t) ==
    decode(token, secret_key, leeway, t)

\* jwt.rs JwtService::is_token_expired: verify_token(token)?, in which decode
\* reads the clock (t), then a second reading t2 of Utc::now() and exp < t2
JwtService_is_token_expired(secret_key, token, leeway, t, t2) ==
    LET r == JwtService_verify_token(secret_key, token, leeway, t) IN
    IF ~r.ok THEN [ok |-> FALSE, value |-> FALSE, error |-> r.error]
    ELSE [ok |-> TRUE, value |-> r.claims.exp < t2, error |-> ""]

\* verify_token_with_device_check without the comparison of the mobile number
JwtService_verify_token_with_device_only(secret_key, token, expected_device_id, expected_mobile_no, leeway, t) ==
    LET r == JwtService_verify_token(secret_key, token, leeway, t) IN
    IF ~r.ok THEN r
    ELSE IF r.claims.device_id # expected_device_id
    THEN [ok |-> FALSE, claims |-> NoClaims, error |-> "Device ID mismatch"]
    ELSE r

\* jwt.rs JwtService::verify_token_with_device_check
JwtService_verify_token_with_device_check(secret_key, token, expected_device_id, expected_mobile_no, leeway, t) ==
    LET r == JwtService_verify_token(secret_key, token, leeway, t) IN
    IF ~r.ok THEN r
    ELSE IF r.claims.device_id # expected_device_id
    THEN [ok |-> FALSE, claims |-> NoClaims, error |-> "Device ID mismatch"]
    ELSE IF r.claims.mobile_no # expected_mobile_no
    THEN [ok |-> FALSE, claims |-> NoClaims,
          error |-> "Mobile number mismatch"]
    ELSE r

\* what a client can present in place of a minted token: the token, the
\* token cut short, with another alg, with altered claims under the old MAC,
\* and the same or a longer-lived claims set signed with another key
Presented(token) ==
    {token,
     [token EXCEPT !.segments = 2],
     [token EXCEPT !.alg = "none"],
     [token EXCEPT !.payload.exp = @ + TOKEN_EXPIRY_HOURS * 60],
     [token EXCEPT !.payload.mobile_no =
         IF @ = MobileList[1] THEN MobileList[2] ELSE MobileList[1]]}
    \cup {encode(c, "not-the-service-secret") :
             c \in {token.payload,
                    [token.payload EXCEPT !.exp = @ + TOKEN_EXPIRY_HOURS * 60]}}

\* repository.rs update_user_login_info: update_one on the first match,
\* $set last_login_date and is_active, $inc total_logins; t is the clock
\* read when the update document was built, before update_one is awaited;
\* last_login_date is not a field of UserRegister
update_user_login_info(mobile_no, t) ==
    IF user_exists(mobile_no)
    THEN LET i == Min(UserIdx(mobile_no)) IN
         [users EXCEPT ![i].total_logins = @ + 1, ![i].is_active = TRUE,
                       ![i].last_login_date = t]
    ELSE users

\* cleanup_expired_otp_sessions with the filter $lte in place of $lt
cleanup_expired_otp_sessions_lte(t) ==
    SelectSeq(challenges, LAMBDA c : ~(c.expires_at <= t))

\* service.rs cleanup_expired_otp_sessions: delete_many expires_at < now
cleanup_expired_otp_sessions(t) ==
    SelectSeq(challenges, LAMBDA c : ~(c.expires_at < t))

\* service.rs verify_session_and_mobile: the lookup found a challenge
\* verify_session_and_mobile that looks the login up by mobile number alone
verify_session_and_mobile_any_token(mobile_no, session_token) ==
    \E i \in 1 .. Len(challenges) : challenges[i].mobile_no = mobile_no

\* service.rs verify_session_and_mobile: find_one(..).is_some()
verify_session_and_mobile(mobile_no, session_token) ==
    find_login_success_by_mobile_and_session(mobile_no, session_token)
        # NoEvent

\* check_referral_code_exists with the filter on referred_by
check_referral_code_exists_referred_by(referral_code) ==
    \E i \in DOMAIN users : users[i].referred_by = referral_code

\* repository.rs check_referral_code_exists: count_documents({referral_code})
\* > 0
check_referral_code_exists(referral_code) ==
    \E i \in DOMAIN users : users[i].referral_code = referral_code

\* repository.rs 217-221 UserRegisterRepository::store_user_register_event:
\* insert_one of the record the caller built
store_user_register_event(event) == Append(users, event)

\* repository.rs 112-116 LoginSuccessEventRepository::
\* store_login_success_event: insert_one of the event the caller built
repo_store_login_success_event(event) == Append(challenges, event)

\* update_user_fcm_token replacing the document by a fresh one
update_user_fcm_token_replace(mobile_no, fcm_token) ==
    IF user_exists(mobile_no)
    THEN LET i == Min(UserIdx(mobile_no)) IN
         [users EXCEPT ![i] = UserRegister_new(mobile_no, fcm_token,
                                      UNKNOWN_USER_ID, UNKNOWN_USER_NUMBER, now)]
    ELSE users

\* service.rs update_user_fcm_token: update_one, $set fcm_token
update_user_fcm_token(mobile_no, fcm_token) ==
    IF user_exists(mobile_no)
    THEN LET i == Min(UserIdx(mobile_no)) IN
         [users EXCEPT ![i].fcm_token = fcm_token]
    ELSE users

\* bson::to_bson of a JSON value, a Result: Err for a u64 above i64::MAX
\* (UnsignedIntegerExceededRange); null becomes Bson::Null, which is what an
\* Option field that is None is stored as and what reads back as None
to_bson(value) ==
    IF value = JsonU64Max THEN [ok |-> FALSE, bson |-> None]
    ELSE [ok |-> TRUE, bson |-> IF value = JsonNull THEN None ELSE value]

\* the update document with a key for every argument, None included
repo_update_user_profile_all_keys(mobile_no, full_name, state, referral_code, referred_by, profile_data) ==
    IF user_exists(mobile_no)
    THEN LET i == Min(UserIdx(mobile_no)) IN
         [ok |-> TRUE,
          users |-> [users EXCEPT ![i].full_name = full_name,
                       ![i].state = state,
                       ![i].referral_code = referral_code,
                       ![i].referred_by = referred_by,
                       ![i].profile_data = profile_data]]
    ELSE [ok |-> TRUE, users |-> users]

\* repository.rs update_user_profile, its Result and userregister after it:
\* the $set document is built from the arguments that are Some, and
\* to_bson(&profile)? returns its Err before update_one is called; update_one
\* changes the first match
repo_update_user_profile(mobile_no, full_name, state, referral_code, referred_by, profile_data) ==
    IF profile_data # None /\ ~to_bson(profile_data).ok
    THEN [ok |-> FALSE, users |-> users]
    ELSE IF user_exists(mobile_no)
    THEN LET i == Min(UserIdx(mobile_no)) IN
         [ok |-> TRUE,
          users |-> [users EXCEPT
            ![i].full_name = IF full_name = None THEN @ ELSE full_name,
            ![i].state = IF state = None THEN @ ELSE state,
            ![i].referral_code =
                IF referral_code = None THEN @ ELSE referral_code,
            ![i].referred_by = IF referred_by = None THEN @ ELSE referred_by,
            ![i].profile_data =
                IF profile_data = None THEN @
                ELSE to_bson(profile_data).bson]]
    ELSE [ok |-> TRUE, users |-> users]

\* service.rs update_user_profile: the repository call with the name only
update_user_profile(mobile_no, full_name) ==
    repo_update_user_profile(mobile_no, full_name, None, None, None, None)

\* service.rs update_user_profile_in_register: the repository call
update_user_profile_in_register(mobile_no, full_name, state, referral_code, referred_by, profile_data) ==
    repo_update_user_profile(mobile_no, full_name, state, referral_code,
                             referred_by, profile_data)

\* repository.rs update_user_language_settings, its Result and userregister
\* after it: the $set document is built from the arguments that are Some,
\* and to_bson(&prefs)? returns its Err before update_one is called;
\* update_one changes the first match
update_user_language_settings(mobile_no, language_code, language_name, region_code, timezone, user_preferences) ==
    IF user_preferences # None /\ ~to_bson(user_preferences).ok
    THEN [ok |-> FALSE, users |-> users]
    ELSE IF user_exists(mobile_no)
    THEN LET i == Min(UserIdx(mobile_no)) IN
         [ok |-> TRUE,
          users |-> [users EXCEPT
            ![i].language_code =
                IF language_code = None THEN @ ELSE language_code,
            ![i].language_name =
                IF language_name = None THEN @ ELSE language_name,
            ![i].region_code = IF region_code = None THEN @ ELSE region_code,
            ![i].timezone = IF timezone = None THEN @ ELSE timezone,
            ![i].user_preferences =
                IF user_preferences = None THEN @
                ELSE to_bson(user_preferences).bson]]
    ELSE [ok |-> TRUE, users |-> users]

\* service.rs update_user_language_in_register: user_preferences is a Value
\* here and goes to the repository as Some(user_preferences)
update_user_language_in_register(mobile_no, language_code, language_name, region_code, timezone, user_preferences) ==
    update_user_language_settings(mobile_no, language_code, language_name,
                                  region_code, timezone, user_preferences)

\* events.rs:955 user_preferences.clone().unwrap_or_else(|| json!({}))
unwrap_or_empty_object(user_preferences) ==
    IF user_preferences = None THEN EmptyObject ELSE user_preferences

\* outcomes of one store call: Ok, and Err when the store may fail
StoreOutcomes == IF faults THEN {TRUE, FALSE} ELSE {TRUE}

\* ---------------------------------------------------- input enumeration
\* mobile numbers and session tokens are opaque to the handlers, so a request
\* naming a value no request named before names the first such value
Choices(list, n, used) ==
    LET fresh == {i \in 1..n : i <= Len(list) /\ list[i] \notin used}
    IN  (used \cap Range(list)) \cup
        (IF fresh = {} THEN {} ELSE {list[Min(fresh)]})

UsedMobiles ==
    {c.mobile_no : c \in issued} \cup {users[i].mobile_no : i \in DOMAIN users}
    \cup {e.mobile_no : e \in DOMAIN attempts}
    \cup {loc[p].mobile_no : p \in {q \in Procs : loc[q].handler # "none"}}

UsedTokens ==
    {c.session_token : c \in issued}
    \cup {e.session_token : e \in DOMAIN attempts}
    \cup {loc[p].session_token : p \in {q \in Procs : loc[q].handler # "none"}}

\* referral codes are opaque too
ReferralCodeList == <<"AB12CD", "EF34GH", "IJ56KL">>
UsedCodes ==
    ({users[i].referral_code : i \in DOMAIN users}
     \cup {users[i].referred_by : i \in DOMAIN users}) \ {None}
CodeChoices == Choices(ReferralCodeList, budget.codes, UsedCodes)

\* the payloads of set:profile that pass validate_user_profile_data, as the
\* handler reads them (events.rs 595-601): validation.rs 837-838 takes an
\* empty referral_code or referred_by for an absent one while as_str() gives
\* the handler Some(""), and validation.rs 839 reads profile_data and
\* checks nothing, so the key may be absent, null or any value, one that
\* BSON cannot hold included
ProfilePayloads ==
    [full_name : FullNames, state : States,
     referral_code : CodeChoices \cup {None, ""},
     referred_by : CodeChoices \cup {None, ""},
     profile_data : Opt(ProfileData) \cup {JsonNull, JsonU64Max}]

\* the payloads of set:language that pass validate_language_setting_data,
\* as the handler reads them (events.rs 902-908): user_preferences may be
\* absent, null or any value, one that BSON cannot hold included
LanguagePayloads ==
    [language_code : LanguageCodes, language_name : LanguageNames,
     region_code : Opt(RegionCodes), timezone : Opt(Timezones),
     user_preferences : Opt(UserPreferences) \cup {JsonNull, JsonU64Max}]

\* the outcomes of validating the next payload: the workload bounds the
\* requests with an invalid payload
Validations ==
    IF budget.invalids > 0 THEN ValidationOutcomes ELSE {"OK"}
Validated(v) ==
    IF v = "OK" THEN budget ELSE [budget EXCEPT !.invalids = @ - 1]

\* a new request is handled by the lowest idle task
FreeTask(p) ==
    /\ pc[p] = "idle"
    /\ p <= budget.tasks
    /\ \A q \in Procs : q < p => pc[q] # "idle"

VerifiesInFlight == Cardinality({q \in Procs : loc[q].handler = "verify"})

Emit(event, error_code, ctx) ==
    emitted' = [event |-> event, error_code |-> error_code, ctx |-> ctx,
                details_error |-> ""]

\* events.rs 529-542: the error_response of a system error; e is the text
\* of the error the store call returned (none in the other responses)
system_error_response(event, error_code, ctx, e) ==
    [event |-> event, error_code |-> error_code, ctx |-> ctx,
     details_error |-> e]

Finish(p) ==
    /\ pc' = [pc EXCEPT ![p] = "idle"]
    /\ loc' = [loc EXCEPT ![p] = NoLocals]

\* the handler has built error_response and awaits
\* store_connection_error_event; l is its locals
Respond(p, l, event, error_code, details_error) ==
    /\ loc' = [loc EXCEPT ![p] = [l EXCEPT !.response =
                    [event |-> event, error_code |-> error_code,
                     details_error |-> details_error]]]
    /\ pc' = [pc EXCEPT ![p] = "error_event"]
    /\ emitted' = NoEmit

\* events.rs 246-254, 296-305, 443-452, 485-494, 514-523, 544-552, 570-578
\* (and the like in set:language): the insert of
\* store_connection_error_event completes, its result is dropped, and the
\* response is sent
StoreConnectionErrorEvent(p) ==
    /\ pc[p] = "error_event"
    /\ LET l == loc[p] IN
        emitted' = system_error_response(l.response.event,
                       l.response.error_code, l, l.response.details_error)
    /\ Finish(p)
    /\ lastCall' = NoCall
    /\ UNCHANGED <<now, users, user_counter, uuid_seq, challenges, attempts,
                   faults, budget, nLogins, nRestarts, lostAttempts, issued,
                   issuedNumbers, runStartedEmpty, sweep_clock>>

\* events.rs 786-788, 996-998: tokio::time::sleep(100 ms) after the emit of
\* profile:set or language:set; then the handler ends
Sleep(p) ==
    /\ pc[p] = "sleep"
    /\ Finish(p)
    /\ emitted' = NoEmit /\ lastCall' = NoCall
    /\ UNCHANGED <<now, users, user_counter, uuid_seq, challenges, attempts,
                   faults, budget, nLogins, nRestarts, lostAttempts, issued,
                   issuedNumbers, runStartedEmpty, sweep_clock>>

\* ---------------------------------------------------------------- init
InitStore ==
    /\ now = 0
    /\ users = <<>>
    /\ user_counter = 0
    /\ uuid_seq = 0
    /\ challenges = <<>>
    /\ attempts = EmptyBag
    /\ pc = [p \in Procs |-> "idle"]
    /\ loc = [p \in Procs |-> NoLocals]
    /\ emitted = NoEmit
    /\ lastCall = NoCall
    /\ nLogins = 0
    /\ nRestarts = 0
    /\ lostAttempts = 0
    /\ issued = {}
    /\ issuedNumbers = <<>>
    /\ runStartedEmpty = TRUE
    /\ sweep_clock = -1

\* a workload bounds the requests of each kind in one behaviour; the
\* workloads of a specification are explored side by side
Idle ==
    [logins |-> 0, verifies |-> 0, ticks |-> 0, sweeps |-> 0, invalids |-> 0,
     mobiles |-> 1, tokens |-> 1, tasks |-> Cardinality(Procs), codes |-> 0,
     set_profiles |-> 0, generates |-> 0, languages |-> 0, fcm_updates |-> 0,
     profile_updates |-> 0, register_updates |-> 0, repo_inserts |-> 0]

\* one challenge and the attempts on it, up to the ceiling and past it
RateLimitWorkload ==
    [Idle EXCEPT !.logins = RateLogins, !.verifies = OtpVerifies,
                 !.mobiles = OtpMobiles, !.tokens = OtpTokens]
\* challenges that expire while they are verified
ExpiryWorkload ==
    [Idle EXCEPT !.logins = OtpLogins, !.verifies = ExpiryVerifies,
                 !.ticks = OtpTicks, !.mobiles = OtpMobiles,
                 !.tokens = OtpTokens]
\* the sweep of expired challenges next to login and verify:otp
SweepWorkload ==
    [Idle EXCEPT !.logins = SweepLogins, !.verifies = SweepVerifies,
                 !.ticks = SweepTicks, !.sweeps = SweepCalls,
                 !.tasks = SweepTasks]
\* requests whose payload does not pass validation
InvalidWorkload ==
    [Idle EXCEPT !.logins = InvalidLogins, !.verifies = InvalidVerifies,
                 !.invalids = InvalidRequests]
\* one challenge verified to its ceiling while it expires and is swept
ExhaustWorkload ==
    [RateLimitWorkload EXCEPT !.ticks = OtpTicks, !.sweeps = ExhaustSweeps,
                              !.tasks = ExhaustTasks]
OtpWorkloads == {RateLimitWorkload, ExpiryWorkload, SweepWorkload, InvalidWorkload, ExhaustWorkload}

Init ==
    /\ InitStore
    /\ faults = FALSE
    /\ budget \in OtpWorkloads

\* registrations of several mobile numbers
UserWorkload ==
    [Idle EXCEPT !.logins = UserLogins, !.verifies = UserVerifies,
                 !.ticks = UserTicks, !.mobiles = UserMobiles,
                 !.tokens = UserTokens]
UserWorkloads == {UserWorkload, SweepWorkload, InvalidWorkload}

InitUsers ==
    /\ InitStore
    /\ faults = FALSE
    /\ budget \in UserWorkloads

\* several sessions of one mobile number
SessionWorkload ==
    [Idle EXCEPT !.logins = SessionLogins, !.verifies = SessionVerifies,
                 !.ticks = SessionTicks, !.mobiles = SessionMobiles,
                 !.tokens = SessionTokens]
SessionWorkloads == {SessionWorkload, SweepWorkload, InvalidWorkload}

InitSessions ==
    /\ InitStore
    /\ faults = FALSE
    /\ budget \in SessionWorkloads

\* the workloads in which store calls and the signing may fail
FaultWorkload ==
    [Idle EXCEPT !.logins = FaultLogins, !.verifies = FaultVerifies,
                 !.mobiles = FaultMobiles, !.tokens = FaultTokens]
FaultSweepWorkload ==
    [Idle EXCEPT !.logins = FaultSweepLogins, !.verifies = FaultSweepVerifies,
                 !.ticks = FaultSweepTicks, !.sweeps = FaultSweepCalls,
                 !.tasks = FaultSweepTasks]
FaultWorkloads == {FaultWorkload, FaultSweepWorkload, InvalidWorkload}

InitFaults ==
    /\ InitStore
    /\ faults = TRUE
    /\ budget \in FaultWorkloads

\* the workloads of SpecService: nothing to do, and what each one adds
ServiceIdle ==
    [Idle EXCEPT !.mobiles = ServiceMobiles, !.tokens = ServiceTokens,
                 !.tasks = ServiceTasks, !.codes = ServiceCodes]

ServiceWorkloads ==
    {[ServiceIdle EXCEPT !.logins = ServiceLogins,
                         !.verifies = ServiceVerifies,
                         !.sweeps = ServiceSweeps],
     [ServiceIdle EXCEPT !.logins = ServiceLogins,
                         !.set_profiles = ServiceSetProfiles,
                         !.register_updates = ServiceRegisterUpdates],
     [ServiceIdle EXCEPT !.logins = ServiceLogins,
                         !.profile_updates = ServiceProfileUpdates,
                         !.register_updates = ServiceRegisterUpdates,
                         !.fcm_updates = ServiceFcmUpdates],
     [ServiceIdle EXCEPT !.logins = ServiceLogins,
                         !.languages = ServiceLanguages,
                         !.fcm_updates = ServiceFcmUpdates],
     [ServiceIdle EXCEPT !.logins = InvalidLogins,
                         !.languages = ServiceLanguages,
                         !.set_profiles = ServiceSetProfiles,
                         !.invalids = InvalidRequests],
     [ServiceIdle EXCEPT !.logins = InvalidLogins,
                         !.verifies = ServiceVerifies,
                         !.repo_inserts = ServiceRepoInserts],
     [ServiceIdle EXCEPT !.logins = ServiceLogins,
                         !.generates = ServiceGenerates,
                         !.register_updates = ServiceReferralUpdates,
                         !.tasks = ServiceReferralTasks]}

InitService ==
    /\ InitStore
    /\ faults = FALSE
    /\ budget \in ServiceWorkloads

\* the credential service alone: the build fixes the leeway of the library
InitJwt ==
    /\ InitStore
    /\ faults = FALSE
    /\ \E l \in Leeways :
         budget \in {[tokens |-> JwtTokens, refreshes |-> 0,
                      users |-> JwtUsers, leeway |-> l],
                     [tokens |-> JwtTokens, refreshes |-> JwtRefreshes,
                      users |-> JwtRefreshUsers, leeway |-> l]}

\* set:language after a login
LanguageWorkload ==
    [Idle EXCEPT !.logins = LanguageLogins, !.ticks = LanguageTicks,
                 !.mobiles = LanguageMobiles, !.tokens = LanguageTokens,
                 !.tasks = LanguageTasks, !.languages = LanguageRequests]
LanguageInvalidWorkload ==
    [Idle EXCEPT !.logins = InvalidLogins, !.languages = LanguageRequests,
                 !.invalids = InvalidRequests]
LanguageWorkloads == {LanguageWorkload, LanguageInvalidWorkload}

InitLanguage ==
    /\ InitStore
    /\ faults = FALSE
    /\ budget \in LanguageWorkloads

\* ------------------------------------------------------- registration
\* service.rs register_new_user, first await: the number; then the record
\* with its fresh UUID v7 is built locally
RegNumber(p) ==
    /\ pc[p] = "reg_number"
    /\ LET r == get_next_user_number(user_counter) IN
        /\ user_counter' = r.counter
        /\ uuid_seq' = uuid_seq + 1
        /\ issuedNumbers' = Append(issuedNumbers, r.result)
        /\ loc' = [loc EXCEPT ![p].user_number = r.result,
                              ![p].user_id = uuid_seq + 1,
                              ![p].created_at = now]
    /\ pc' = [pc EXCEPT ![p] = "reg_insert"]
    /\ emitted' = NoEmit /\ lastCall' = NoCall
    /\ UNCHANGED <<now, users, challenges, attempts, faults, budget, nLogins,
                   nRestarts, lostAttempts, issued, runStartedEmpty, sweep_clock>>

\* the fcm_token of the payload of the request of task p: login has
\* validated and read it (events.rs 169); the other handlers read
\* data["fcm_token"] only in their call of register_new_user (events.rs
\* 331, 924)
FcmTokenOf(p) ==
    IF loc[p].handler = "login" THEN {loc[p].fcm_token} ELSE PayloadFcmTokens

\* service.rs register_new_user, second await: create_user_register of the
\* record built from the caller's fcm_token.
\* login ignores the result and calls store_login_success_event, which
\* reads the clock; verify:otp replaces an Err by ("unknown", 0), signs the
\* credential and looks the user up again; set:language replaces an Err
\* likewise and goes on to its update.
RegInsert(p) ==
    /\ pc[p] = "reg_insert"
    /\ \E ok \in StoreOutcomes, sign_ok \in StoreOutcomes,
          fcm_token \in FcmTokenOf(p) :
        LET l == loc[p]
            uid == IF ok THEN l.user_id ELSE UNKNOWN_USER_ID
            unum == IF ok THEN l.user_number ELSE UNKNOWN_USER_NUMBER
        IN
        /\ users' = IF ok
                    THEN Append(users, UserRegister_new(l.mobile_no,
                                    unwrap_or_unknown(fcm_token), l.user_id,
                                    l.user_number, l.created_at))
                    ELSE users
        /\ IF l.handler = "login"
           THEN /\ pc' = [pc EXCEPT ![p] = "l_store"]
                /\ loc' = [loc EXCEPT ![p].clock = now]
           ELSE IF l.handler = "verify"
           THEN /\ pc' = [pc EXCEPT ![p] = "v_status"]
                /\ loc' = [loc EXCEPT ![p].user_id = uid,
                                      ![p].user_number = unum,
                                      ![p].jwt = generate_token(uid, unum,
                                                      l.mobile_no, sign_ok)]
           ELSE /\ pc' = [pc EXCEPT ![p] = "g_update"]
                /\ loc' = [loc EXCEPT ![p].user_id = uid,
                                      ![p].user_number = unum]
    /\ emitted' = NoEmit /\ lastCall' = NoCall
    /\ UNCHANGED <<now, user_counter, uuid_seq, challenges, attempts, faults,
                   budget, nLogins, nRestarts, lostAttempts, issued,
                   issuedNumbers, runStartedEmpty, sweep_clock>>

\* --------------------------------------------------------------- login
\* events.rs 162-177, 233-256: the request arrives, is validated, and the
\* session token and OTP are drawn
LoginReceive(p) ==
    /\ FreeTask(p)
    /\ nLogins < budget.logins
    /\ \E m \in Choices(MobileList, budget.mobiles, UsedMobiles),
          t \in Choices(TokenList, budget.tokens, UsedTokens),
          o \in OtpCodes, v \in Validations :
      /\ lastCall' = [NoCall EXCEPT !.op = "login", !.validation = v]
      /\ budget' = Validated(v)
      /\ IF v = "OK"
        THEN /\ loc' = [loc EXCEPT ![p] = [NoLocals EXCEPT !.handler = "login",
                            !.mobile_no = m, !.session_token = t, !.otp = o,
                            !.fcm_token = LoginFcmToken]]
             /\ pc' = [pc EXCEPT ![p] = "l_exists"]
             /\ nLogins' = nLogins + 1
             /\ emitted' = NoEmit
        ELSE /\ Respond(p, [NoLocals EXCEPT !.handler = "login"],
                        "connection_error", v, "")
             /\ UNCHANGED nLogins
    /\ UNCHANGED <<now, users, user_counter, uuid_seq, challenges, attempts,
                   faults, nRestarts, lostAttempts, issued,
                   issuedNumbers, runStartedEmpty, sweep_clock>>

\* events.rs 180-209: user_exists completes; the call that follows
\* (update_user_login_info, or store_login_success_event after an Err)
\* reads the clock before its await
LoginUserExists(p) ==
    /\ pc[p] = "l_exists"
    /\ \E ok \in StoreOutcomes :
        IF ~ok
        THEN /\ pc' = [pc EXCEPT ![p] = "l_store"]
             /\ loc' = [loc EXCEPT ![p].clock = now]
        ELSE IF user_exists(loc[p].mobile_no)
        THEN /\ pc' = [pc EXCEPT ![p] = "l_update"]
             /\ loc' = [loc EXCEPT ![p].clock = now]
        ELSE /\ pc' = [pc EXCEPT ![p] = "reg_number"]
             /\ loc' = [loc EXCEPT ![p].is_new_user = TRUE]
    /\ emitted' = NoEmit /\ lastCall' = NoCall
    /\ UNCHANGED <<now, users, user_counter, uuid_seq, challenges, attempts,
                   faults, budget, nLogins, nRestarts, lostAttempts, issued,
                   issuedNumbers, runStartedEmpty, sweep_clock>>

\* events.rs 185-190: update_one of update_user_login_info completes, its
\* Err only logged; store_login_success_event is called and reads the clock
LoginUpdate(p) ==
    /\ pc[p] = "l_update"
    /\ \E ok \in StoreOutcomes :
        /\ users' = IF ok
                    THEN update_user_login_info(loc[p].mobile_no, loc[p].clock)
                    ELSE users
        /\ lastCall' = [NoCall EXCEPT !.op = "update_user_login_info",
                            !.mobile_no = loc[p].mobile_no,
                            !.t = loc[p].clock,
                            !.result = IF ok THEN "Ok" ELSE "Err",
                            !.before = users]
    /\ pc' = [pc EXCEPT ![p] = "l_store"]
    /\ loc' = [loc EXCEPT ![p].clock = now]
    /\ emitted' = NoEmit
    /\ UNCHANGED <<now, user_counter, uuid_seq, challenges, attempts,
                   faults, budget, nLogins, nRestarts, lostAttempts, issued,
                   issuedNumbers, runStartedEmpty, sweep_clock>>

\* service.rs store_login_success_event: insert_one of the event built at
\* the call completes; then events.rs 228 emits, whether or not the insert
\* succeeded
\* store_login_success_event with the expiry a minute late
store_login_success_event_late_expiry(mobile_no, session_token, otp, t) ==
    [mobile_no |-> mobile_no, session_token |-> session_token, otp |-> otp,
     timestamp |-> t, expires_at |-> t + OTP_LIFETIME_MINUTES + 1]

\* service.rs store_login_success_event: the LoginSuccessEvent it inserts,
\* t the one reading of the clock
store_login_success_event(mobile_no, session_token, otp, t) ==
    [mobile_no |-> mobile_no, session_token |-> session_token, otp |-> otp,
     timestamp |-> t, expires_at |-> t + OTP_LIFETIME_MINUTES]

LoginStore(p) ==
    /\ pc[p] = "l_store"
    /\ \E ok \in StoreOutcomes :
        LET l == loc[p]
            ev == store_login_success_event(l.mobile_no, l.session_token,
                                            l.otp, l.clock)
        IN
        /\ challenges' = IF ok THEN Append(challenges, ev) ELSE challenges
        /\ issued' = IF ok THEN issued \cup {ev} ELSE issued
        /\ Emit("login:success", "", l)
    /\ Finish(p)
    /\ lastCall' = NoCall
    /\ UNCHANGED <<now, users, user_counter, uuid_seq, attempts, faults,
                   budget, nLogins, nRestarts, lostAttempts, issuedNumbers,
                   runStartedEmpty, sweep_clock>>

\* ---------------------------------------------------------- verify:otp
\* events.rs 263-272, 557-580: the request arrives and is validated
VerifyReceive(p) ==
    /\ FreeTask(p)
    /\ BagCardinality(attempts) + lostAttempts + VerifiesInFlight
            < budget.verifies
    /\ \E m \in Choices(MobileList, budget.mobiles, UsedMobiles),
          t \in Choices(TokenList, budget.tokens, UsedTokens),
          o \in OtpStrings, v \in Validations :
      /\ lastCall' = [NoCall EXCEPT !.op = "verify:otp", !.validation = v]
      /\ budget' = Validated(v)
      /\ IF v = "OK"
        THEN /\ loc' = [loc EXCEPT ![p] = [NoLocals EXCEPT !.handler = "verify",
                            !.mobile_no = m, !.session_token = t,
                            !.provided_otp = o,
                            !.saturated =
                                (get_verification_attempts_count(m, t)
                                    >= MAX_ATTEMPTS)]]
             /\ pc' = [pc EXCEPT ![p] = "v_gate"]
             /\ emitted' = NoEmit
        ELSE Respond(p, [NoLocals EXCEPT !.handler = "verify"],
                     "otp:verification_failed", v, "")
    /\ UNCHANGED <<now, users, user_counter, uuid_seq, challenges, attempts,
                   faults, nLogins, nRestarts, lostAttempts, issued,
                   issuedNumbers, runStartedEmpty, sweep_clock>>

\* events.rs 275-314: check_otp_attempts completes; when the request is
\* denied the response is built and its audit insert awaited; an Err is
\* logged and the handler goes on to the verification
VerifyGate(p) ==
    /\ pc[p] = "v_gate"
    /\ \E ok \in StoreOutcomes :
        LET l == loc[p]
            n == get_verification_attempts_count(l.mobile_no, l.session_token)
            denied == ok /\ ~check_otp_attempts(n)
            call == [NoCall EXCEPT !.op = "check_otp_attempts",
                        !.mobile_no = l.mobile_no,
                        !.session_token = l.session_token,
                        !.count = IF ok THEN n ELSE -1,
                        !.result = IF ~ok THEN "Err"
                                   ELSE IF denied THEN "denied" ELSE "allowed"]
        IN
        /\ lastCall' = call
        /\ IF denied
           THEN Respond(p, [l EXCEPT !.gate = "denied"],
                        "otp:verification_failed", "RATE_LIMIT_EXCEEDED", "")
           ELSE /\ loc' = [loc EXCEPT ![p].gate = call.result]
                /\ pc' = [pc EXCEPT ![p] = "v_verify"]
                /\ emitted' = NoEmit
    /\ UNCHANGED <<now, users, user_counter, uuid_seq, challenges, attempts,
                   faults, budget, nLogins, nRestarts, lostAttempts, issued,
                   issuedNumbers, runStartedEmpty, sweep_clock>>

\* events.rs 317-320, 497-554: verify_otp completes (lookup, then clock and
\* comparison); NotFound and Err build the response and await its audit
\* insert
VerifyOtp(p) ==
    /\ pc[p] = "v_verify"
    /\ \E ok \in StoreOutcomes :
        LET l == loc[p]
            ev == find_login_success_by_mobile_and_session(l.mobile_no,
                                                           l.session_token)
            res == IF ok THEN verify_otp(ev, now, l.provided_otp) ELSE "Err"
            l2 == [l EXCEPT !.vres = res]
        IN
        /\ lastCall' = [NoCall EXCEPT !.op = "verify_otp",
                            !.mobile_no = l.mobile_no,
                            !.session_token = l.session_token,
                            !.provided_otp = l.provided_otp,
                            !.t = now,
                            !.event = IF ok THEN ev ELSE NoEvent,
                            !.count = get_verification_attempts_count(
                                          l.mobile_no, l.session_token),
                            !.result = res]
        /\ IF res = "Err"
           THEN \E e \in ErrorTexts :
                     Respond(p, l2, "otp:verification_failed",
                             "OTP_VERIFICATION_ERROR", e)
           ELSE IF res = "NotFound"
           THEN Respond(p, l2, "otp:verification_failed",
                        "SESSION_NOT_FOUND", "")
           ELSE /\ loc' = [loc EXCEPT ![p] = l2]
                /\ pc' = [pc EXCEPT ![p] = IF res = "Success" THEN "v_user"
                                           ELSE "v_record"]
                /\ emitted' = NoEmit
    /\ UNCHANGED <<now, users, user_counter, uuid_seq, challenges, attempts,
                   faults, budget, nLogins, nRestarts, lostAttempts, issued,
                   issuedNumbers, runStartedEmpty, sweep_clock>>

\* events.rs 323-352: get_user_by_mobile; Ok(Some) signs the credential
\* and looks the user up again, anything else registers a user first
VerifyGetUser(p) ==
    /\ pc[p] = "v_user"
    /\ \E ok \in StoreOutcomes, sign_ok \in StoreOutcomes :
        LET l == loc[p] IN
        IF ok /\ user_exists(l.mobile_no)
        THEN LET u == find_user_by_mobile(l.mobile_no) IN
             /\ loc' = [loc EXCEPT ![p].user_id = u.user_id,
                                   ![p].user_number = u.user_number,
                                   ![p].jwt = generate_token(u.user_id,
                                        u.user_number, l.mobile_no, sign_ok)]
             /\ pc' = [pc EXCEPT ![p] = "v_status"]
        ELSE /\ loc' = loc
             /\ pc' = [pc EXCEPT ![p] = "reg_number"]
    /\ emitted' = NoEmit /\ lastCall' = NoCall
    /\ UNCHANGED <<now, users, user_counter, uuid_seq, challenges, attempts,
                   faults, budget, nLogins, nRestarts, lostAttempts, issued,
                   issuedNumbers, runStartedEmpty, sweep_clock>>

\* events.rs 355-364: the second get_user_by_mobile; user_status
VerifyUserStatus(p) ==
    /\ pc[p] = "v_status"
    /\ \E ok \in StoreOutcomes :
        LET l == loc[p] IN
        loc' = [loc EXCEPT ![p].user_status =
                    IF ok /\ user_exists(l.mobile_no)
                          /\ find_user_by_mobile(l.mobile_no).full_name # None
                    THEN "existing_user" ELSE "new_user"]
    /\ pc' = [pc EXCEPT ![p] = "v_record"]
    /\ emitted' = NoEmit /\ lastCall' = NoCall
    /\ UNCHANGED <<now, users, user_counter, uuid_seq, challenges, attempts,
                   faults, budget, nLogins, nRestarts, lostAttempts, issued,
                   issuedNumbers, runStartedEmpty, sweep_clock>>

\* events.rs 394-411: store_user_registration_event completes, its result
\* dropped, and otp:verified is sent
StoreUserRegistrationEvent(p) ==
    /\ pc[p] = "registration_event"
    /\ Emit("otp:verified", "", loc[p])
    /\ Finish(p)
    /\ lastCall' = NoCall
    /\ UNCHANGED <<now, users, user_counter, uuid_seq, challenges, attempts,
                   faults, budget, nLogins, nRestarts, lostAttempts, issued,
                   issuedNumbers, runStartedEmpty, sweep_clock>>

\* store_otp_verification_event that inserts only successful attempts
store_otp_verification_event_success_only(mobile_no, session_token, is_success) ==
    IF is_success
    THEN attempts (+) SetToBag({[mobile_no |-> mobile_no,
                                 session_token |-> session_token,
                                 is_success |-> is_success]})
    ELSE attempts

\* service.rs store_otp_verification_event: insert_one of the attempt
store_otp_verification_event(mobile_no, session_token, is_success) ==
    attempts (+) SetToBag({[mobile_no |-> mobile_no,
                            session_token |-> session_token,
                            is_success |-> is_success]})

\* events.rs 383-411, 431-452, 473-494: insert_one of
\* store_otp_verification_event completes; a new_user then awaits
\* store_user_registration_event, an existing_user is sent otp:verified at
\* once, and a failure awaits the audit insert of its response
VerifyRecord(p) ==
    /\ pc[p] = "v_record"
    /\ \E ok \in StoreOutcomes :
        LET l == loc[p] IN
        /\ attempts' = IF ok
                       THEN store_otp_verification_event(l.mobile_no,
                                l.session_token, l.vres = "Success")
                       ELSE attempts
        /\ lostAttempts' = IF ok THEN lostAttempts ELSE lostAttempts + 1
        /\ IF l.vres = "Success" /\ l.user_status = "new_user"
           THEN /\ pc' = [pc EXCEPT ![p] = "registration_event"]
                /\ loc' = loc
                /\ emitted' = NoEmit
           ELSE IF l.vres = "Success"
           THEN /\ Emit("otp:verified", "", l)
                /\ Finish(p)
           ELSE Respond(p, l, "otp:verification_failed",
                        IF l.vres = "Invalid" THEN "INVALID_OTP"
                        ELSE "OTP_EXPIRED", "")
    /\ lastCall' = NoCall
    /\ UNCHANGED <<now, users, user_counter, uuid_seq, challenges, faults,
                   budget, nLogins, nRestarts, issued, issuedNumbers,
                   runStartedEmpty, sweep_clock>>

\* ------------------------------------------------- sweep, clock, restart
\* service.rs 480-487 cleanup_expired_otp_sessions is called: it reads the
\* clock, builds the filter and awaits delete_many
SweepCall ==
    /\ sweep_clock = -1
    /\ budget.sweeps > 0
    /\ budget' = [budget EXCEPT !.sweeps = @ - 1]
    /\ sweep_clock' = now
    /\ emitted' = NoEmit /\ lastCall' = NoCall
    /\ UNCHANGED <<now, users, user_counter, uuid_seq, challenges, attempts,
                   pc, loc, faults, nLogins, nRestarts, lostAttempts,
                   issued, issuedNumbers, runStartedEmpty>>

\* service.rs 489-496: delete_many completes with the filter built at the
\* call; the sweep returns deleted_count, or the Err of delete_many
Sweep ==
    /\ sweep_clock # -1
    /\ \E ok \in StoreOutcomes :
        /\ challenges' = IF ok THEN cleanup_expired_otp_sessions(sweep_clock)
                         ELSE challenges
        /\ lastCall' = [NoCall EXCEPT !.op = "cleanup_expired_otp_sessions",
                            !.t = sweep_clock,
                            !.result = IF ok THEN "Ok" ELSE "Err",
                            !.count = IF ok
                                      THEN Len(challenges) - Len(challenges')
                                      ELSE -1]
    /\ sweep_clock' = -1
    /\ emitted' = NoEmit
    /\ UNCHANGED <<now, users, user_counter, uuid_seq, attempts, pc, loc,
                   faults, budget, nLogins, nRestarts, lostAttempts, issued,
                   issuedNumbers, runStartedEmpty>>

Tick ==
    /\ now + ClockStep <= budget.ticks * ClockStep
    /\ now' = now + ClockStep
    /\ emitted' = NoEmit /\ lastCall' = NoCall
    /\ UNCHANGED <<users, user_counter, uuid_seq, challenges, attempts, pc,
                   loc, faults, budget, nLogins, nRestarts, lostAttempts,
                   issued, issuedNumbers, runStartedEmpty, sweep_clock>>

\* main.rs:74 / service.rs:29: a new process builds DataService::new(),
\* whose counter is 0; the tasks of the old process are gone, the store stays
Restart ==
    /\ nRestarts < MaxRestarts
    /\ user_counter' = 0
    /\ pc' = [p \in Procs |-> "idle"]
    /\ loc' = [p \in Procs |-> NoLocals]
    /\ emitted' = NoEmit /\ lastCall' = NoCall
    /\ issuedNumbers' = <<>>
    /\ runStartedEmpty' = (users = <<>>)
    /\ nRestarts' = nRestarts + 1
    /\ sweep_clock' = -1
    /\ UNCHANGED <<now, users, uuid_seq, challenges, attempts, faults, budget,
                   lostAttempts, nLogins, issued>>

\* --------------------------------------------------------- set:language
\* events.rs 896-908, 1056-1080: the request arrives and is validated
LanguageReceive(p) ==
    /\ FreeTask(p)
    /\ budget.languages > 0
    /\ \E m \in Choices(MobileList, budget.mobiles, UsedMobiles),
          t \in Choices(TokenList, budget.tokens, UsedTokens),
          g \in LanguagePayloads, v \in Validations :
      /\ lastCall' = [NoCall EXCEPT !.op = "set:language", !.validation = v]
      /\ budget' = [Validated(v) EXCEPT !.languages = @ - 1]
      /\ IF v = "OK"
        THEN /\ loc' = [loc EXCEPT ![p] = [NoLocals EXCEPT
                            !.handler = "language", !.mobile_no = m,
                            !.session_token = t, !.language = g]]
             /\ pc' = [pc EXCEPT ![p] = "g_session"]
             /\ emitted' = NoEmit
        ELSE Respond(p, [NoLocals EXCEPT !.handler = "language"],
                     "connection_error", v, "")
    /\ UNCHANGED <<now, users, user_counter, uuid_seq, challenges, attempts,
                   faults, nLogins, nRestarts, lostAttempts, issued,
                   issuedNumbers, runStartedEmpty, sweep_clock>>

\* events.rs 911-914, 1002-1054: verify_session_and_mobile
LanguageSession(p) ==
    /\ pc[p] = "g_session"
    /\ \E ok \in StoreOutcomes :
        LET l == loc[p] IN
        IF ~ok
        THEN \E e \in ErrorTexts :
                  Respond(p, l, "connection_error",
                          "SESSION_VERIFICATION_ERROR", e)
        ELSE IF ~verify_session_and_mobile(l.mobile_no, l.session_token)
        THEN Respond(p, l, "connection_error", "INVALID_SESSION", "")
        ELSE /\ pc' = [pc EXCEPT ![p] = "g_user"]
             /\ loc' = loc
             /\ emitted' = NoEmit
    /\ lastCall' = NoCall
    /\ UNCHANGED <<now, users, user_counter, uuid_seq, challenges, attempts,
                   faults, budget, nLogins, nRestarts, lostAttempts, issued,
                   issuedNumbers, runStartedEmpty, sweep_clock>>

\* events.rs 916-929: get_user_by_mobile; anything but Ok(Some) registers
LanguageGetUser(p) ==
    /\ pc[p] = "g_user"
    /\ \E ok \in StoreOutcomes :
        LET l == loc[p] IN
        IF ok /\ user_exists(l.mobile_no)
        THEN LET u == find_user_by_mobile(l.mobile_no) IN
             /\ loc' = [loc EXCEPT ![p].user_id = u.user_id,
                                   ![p].user_number = u.user_number]
             /\ pc' = [pc EXCEPT ![p] = "g_update"]
        ELSE /\ loc' = loc
             /\ pc' = [pc EXCEPT ![p] = "reg_number"]
    /\ emitted' = NoEmit /\ lastCall' = NoCall
    /\ UNCHANGED <<now, users, user_counter, uuid_seq, challenges, attempts,
                   faults, budget, nLogins, nRestarts, lostAttempts, issued,
                   issuedNumbers, runStartedEmpty, sweep_clock>>

\* events.rs 949-998: update_user_language_in_register, its Err only logged,
\* then the emit of language:set
LanguageUpdate(p) ==
    /\ pc[p] = "g_update"
    /\ \E ok \in StoreOutcomes :
        LET l == loc[p]
            g == l.language
            r == update_user_language_in_register(l.mobile_no,
                    g.language_code, g.language_name, g.region_code,
                    g.timezone, unwrap_or_empty_object(g.user_preferences))
        IN
        /\ users' = IF ok THEN r.users ELSE users
        /\ lastCall' = [NoCall EXCEPT
                            !.op = "update_user_language_in_register",
                            !.mobile_no = l.mobile_no,
                            !.session_token = l.session_token,
                            !.language = g,
                            !.result = IF ok /\ r.ok THEN "Ok" ELSE "Err",
                            !.before = users]
        /\ Emit("language:set", "", l)
    /\ pc' = [pc EXCEPT ![p] = "sleep"]
    /\ loc' = loc
    /\ UNCHANGED <<now, user_counter, uuid_seq, challenges, attempts, faults,
                   budget, nLogins, nRestarts, lostAttempts, issued,
                   issuedNumbers, runStartedEmpty, sweep_clock>>

\* ---------------------------------------------------------- set:profile
\* the handler with the future awaited: a request with a stored login and
\* without a referral_code has a free code generated and written
SetProfile_awaited(p) ==
    /\ FreeTask(p)
    /\ budget.set_profiles > 0
    /\ budget' = [budget EXCEPT !.set_profiles = @ - 1]
    /\ \E m \in Choices(MobileList, budget.mobiles, UsedMobiles),
          t \in Choices(TokenList, budget.tokens, UsedTokens),
          f \in ProfilePayloads, v \in ValidationOutcomes,
          code \in CodeChoices :
        /\ lastCall' = [NoCall EXCEPT !.op = "set:profile", !.mobile_no = m,
                        !.session_token = t, !.profile = f, !.validation = v,
                        !.result = "Ok(future)", !.before = users]
        /\ users' = IF /\ v = "OK"
                       /\ verify_session_and_mobile(m, t)
                       /\ f.referral_code = None
                       /\ ~check_referral_code_exists(code)
                    THEN update_user_profile_in_register(m, f.full_name,
                            f.state, code, f.referred_by, f.profile_data).users
                    ELSE users
    /\ emitted' = NoEmit
    /\ UNCHANGED <<now, user_counter, uuid_seq, challenges, attempts,
                   pc, loc, faults, nLogins, nRestarts, lostAttempts, issued,
                   issuedNumbers, runStartedEmpty, sweep_clock>>

\* events.rs 586-892, the handler: catch_unwind runs the closure, which
\* returns the future of the async block without polling it; the handler
\* matches Ok(_) and ends, and the future is dropped.  Nothing of the block
\* runs: no validation, no store call, no emit.
SetProfile(p) ==
    /\ FreeTask(p)
    /\ budget.set_profiles > 0
    /\ budget' = [budget EXCEPT !.set_profiles = @ - 1]
    /\ \E m \in Choices(MobileList, budget.mobiles, UsedMobiles),
          t \in Choices(TokenList, budget.tokens, UsedTokens),
          f \in ProfilePayloads, v \in ValidationOutcomes :
        lastCall' = [NoCall EXCEPT !.op = "set:profile", !.mobile_no = m,
                        !.session_token = t, !.profile = f, !.validation = v,
                        !.result = "Ok(future)", !.before = users]
    /\ emitted' = NoEmit
    /\ UNCHANGED <<now, users, user_counter, uuid_seq, challenges, attempts,
                   pc, loc, faults, nLogins, nRestarts, lostAttempts, issued,
                   issuedNumbers, runStartedEmpty, sweep_clock>>

\* ----------------------------- operations of DataService no handler calls
\* service.rs 313-325 update_user_fcm_token
UpdateUserFcmToken ==
    /\ budget.fcm_updates > 0
    /\ budget' = [budget EXCEPT !.fcm_updates = @ - 1]
    /\ \E m \in Choices(MobileList, budget.mobiles, UsedMobiles) :
        /\ users' = update_user_fcm_token(m, NewFcmToken)
        /\ lastCall' = [NoCall EXCEPT !.op = "update_user_fcm_token",
                            !.mobile_no = m, !.fcm_token = NewFcmToken,
                            !.result = "Ok", !.before = users]
    /\ emitted' = NoEmit
    /\ UNCHANGED <<now, user_counter, uuid_seq, challenges, attempts, pc,
                   loc, faults, nLogins, nRestarts, lostAttempts, issued,
                   issuedNumbers, runStartedEmpty, sweep_clock>>

\* service.rs 328-337 update_user_profile
UpdateUserProfile ==
    /\ budget.profile_updates > 0
    /\ budget' = [budget EXCEPT !.profile_updates = @ - 1]
    /\ \E m \in Choices(MobileList, budget.mobiles, UsedMobiles),
          n \in NewFullNames :
        /\ users' = update_user_profile(m, n).users
        /\ lastCall' = [NoCall EXCEPT !.op = "update_user_profile",
                            !.mobile_no = m,
                            !.profile = [NoProfile EXCEPT !.full_name = n],
                            !.result = "Ok", !.before = users]
    /\ emitted' = NoEmit
    /\ UNCHANGED <<now, user_counter, uuid_seq, challenges, attempts, pc,
                   loc, faults, nLogins, nRestarts, lostAttempts, issued,
                   issuedNumbers, runStartedEmpty, sweep_clock>>

\* service.rs 447-457 update_user_profile_in_register, reached only from the
\* future that set:profile drops; the call writes what it is given, whatever
\* referral_code and referred_by name
UpdateUserProfileInRegister ==
    /\ budget.register_updates > 0
    /\ budget' = [budget EXCEPT !.register_updates = @ - 1]
    /\ \E m \in Choices(MobileList, budget.mobiles, UsedMobiles),
          f \in ProfilePayloads :
        LET r == update_user_profile_in_register(m, f.full_name, f.state,
                        f.referral_code, f.referred_by, f.profile_data)
        IN
        /\ users' = r.users
        /\ lastCall' = [NoCall EXCEPT
                            !.op = "update_user_profile_in_register",
                            !.mobile_no = m, !.profile = f,
                            !.result = IF r.ok THEN "Ok" ELSE "Err",
                            !.before = users]
    /\ emitted' = NoEmit
    /\ UNCHANGED <<now, user_counter, uuid_seq, challenges, attempts, pc,
                   loc, faults, nLogins, nRestarts, lostAttempts, issued,
                   issuedNumbers, runStartedEmpty, sweep_clock>>

\* service.rs 420-433 generate_unique_referral_code, reached only from the
\* future that set:profile drops, is called: attempts = 0, the first
\* candidate is drawn and its lookup awaited; _mobile_no is not used
GenerateUniqueReferralCodeCall(p) ==
    /\ FreeTask(p)
    /\ budget.generates > 0
    /\ budget' = [budget EXCEPT !.generates = @ - 1]
    /\ loc' = [loc EXCEPT ![p] = [NoLocals EXCEPT !.handler = "generate"]]
    /\ pc' = [pc EXCEPT ![p] = "generate"]
    /\ emitted' = NoEmit /\ lastCall' = NoCall
    /\ UNCHANGED <<now, users, user_counter, uuid_seq, challenges, attempts,
                   faults, nLogins, nRestarts, lostAttempts, issued,
                   issuedNumbers, runStartedEmpty, sweep_clock>>

\* service.rs 424-443, one turn of the loop: check_referral_code_exists of
\* the candidate completes.  A free candidate is returned; a taken one adds
\* 1 to attempts, and the next candidate is drawn while attempts < 10; after
\* the tenth the call returns its Err, and the Err of a failed lookup is
\* returned at once (the ? at 435).  lastCall.count is the number of lookups
\* the call made, lastCall.result Ok or the text of the Err.
GenerateUniqueReferralCode(p) ==
    /\ pc[p] = "generate"
    /\ \E ok \in StoreOutcomes, code \in CodeChoices :
        LET l == loc[p]
            exists == check_referral_code_exists(code)
            tried == l.generate_attempts + 1
            call == [NoCall EXCEPT !.op = "generate_unique_referral_code",
                                   !.count = tried, !.before = users]
        IN
        IF ~ok
        THEN /\ Finish(p)
             /\ \E e \in ErrorTexts : lastCall' = [call EXCEPT !.result = e]
        ELSE IF ~exists
        THEN /\ Finish(p)
             /\ lastCall' = [call EXCEPT !.result = "Ok",
                                         !.profile.referral_code = code]
        ELSE IF tried < REFERRAL_MAX_ATTEMPTS
        THEN /\ loc' = [loc EXCEPT ![p].generate_attempts = tried]
             /\ pc' = pc
             /\ lastCall' = NoCall
        ELSE /\ Finish(p)
             /\ lastCall' = [call EXCEPT !.result =
                    "Failed to generate unique referral code after maximum attempts"]
    /\ emitted' = NoEmit
    /\ UNCHANGED <<now, users, user_counter, uuid_seq, challenges, attempts,
                   faults, budget, nLogins, nRestarts, lostAttempts, issued,
                   issuedNumbers, runStartedEmpty, sweep_clock>>

\* ------------------------- operations of the repositories nothing calls
\* repository.rs 217-221: a record built with UserRegister::new (a fresh
\* UUID v7, the number its caller chose) is inserted
StoreUserRegisterEvent ==
    /\ budget.repo_inserts > 0
    /\ budget' = [budget EXCEPT !.repo_inserts = @ - 1]
    /\ \E m \in Choices(MobileList, budget.mobiles, UsedMobiles),
          n \in 1 .. budget.mobiles :
        /\ users' = store_user_register_event(
                        UserRegister_new(m, NewFcmToken, uuid_seq + 1, n, now))
        /\ lastCall' = [NoCall EXCEPT !.op = "store_user_register_event",
                            !.mobile_no = m, !.fcm_token = NewFcmToken,
                            !.count = n, !.result = "Ok", !.before = users]
    /\ uuid_seq' = uuid_seq + 1
    /\ emitted' = NoEmit
    /\ UNCHANGED <<now, user_counter, challenges, attempts, pc, loc, faults,
                   nLogins, nRestarts, lostAttempts, issued, issuedNumbers,
                   runStartedEmpty, sweep_clock>>

\* repository.rs 112-116: the event its caller built is inserted, with the
\* expires_at the caller gave it
StoreLoginSuccessEvent ==
    /\ budget.repo_inserts > 0
    /\ budget' = [budget EXCEPT !.repo_inserts = @ - 1]
    /\ \E m \in Choices(MobileList, budget.mobiles, UsedMobiles),
          t \in Choices(TokenList, budget.tokens, UsedTokens),
          o \in OtpCodes, x \in {now, now + OTP_LIFETIME_MINUTES} :
        LET event == [mobile_no |-> m, session_token |-> t, otp |-> o,
                      timestamp |-> now, expires_at |-> x]
        IN /\ challenges' = repo_store_login_success_event(event)
           /\ issued' = issued \cup {event}
           /\ lastCall' = [NoCall EXCEPT !.op = "store_login_success_event",
                               !.mobile_no = m, !.session_token = t,
                               !.event = event, !.result = "Ok"]
    /\ emitted' = NoEmit
    /\ UNCHANGED <<now, users, user_counter, uuid_seq, attempts, pc, loc,
                   faults, nLogins, nRestarts, lostAttempts, issuedNumbers,
                   runStartedEmpty, sweep_clock>>

\* repository.rs 136-140: the attempt record its caller built is inserted
StoreOtpVerificationEvent ==
    /\ budget.repo_inserts > 0
    /\ budget' = [budget EXCEPT !.repo_inserts = @ - 1]
    /\ \E m \in Choices(MobileList, budget.mobiles, UsedMobiles),
          t \in Choices(TokenList, budget.tokens, UsedTokens),
          is_success \in BOOLEAN :
        LET event == [mobile_no |-> m, session_token |-> t,
                      is_success |-> is_success]
        IN /\ attempts' = attempts (+) SetToBag({event})
           /\ lastCall' = [NoCall EXCEPT !.op = "store_otp_verification_event",
                               !.mobile_no = m, !.session_token = t,
                               !.result = "Ok"]
    /\ emitted' = NoEmit
    /\ UNCHANGED <<now, users, user_counter, uuid_seq, challenges, pc, loc,
                   faults, nLogins, nRestarts, lostAttempts, issued,
                   issuedNumbers, runStartedEmpty, sweep_clock>>

Next ==
    \/ \E p \in Procs : LoginReceive(p)
    \/ \E p \in Procs : LoginUserExists(p)
    \/ \E p \in Procs : LoginUpdate(p)
    \/ \E p \in Procs : LoginStore(p)
    \/ \E p \in Procs : RegNumber(p)
    \/ \E p \in Procs : RegInsert(p)
    \/ \E p \in Procs : VerifyReceive(p)
    \/ \E p \in Procs : VerifyGate(p)
    \/ \E p \in Procs : VerifyOtp(p)
    \/ \E p \in Procs : VerifyGetUser(p)
    \/ \E p \in Procs : VerifyUserStatus(p)
    \/ \E p \in Procs : VerifyRecord(p)
    \/ \E p \in Procs : StoreUserRegistrationEvent(p)
    \/ \E p \in Procs : StoreConnectionErrorEvent(p)
    \/ SweepCall
    \/ Sweep
    \/ Tick

NextRestart == Next \/ Restart

\* the handlers as they are, and the service operations called directly
NextService ==
    \/ \E p \in Procs : LoginReceive(p)
    \/ \E p \in Procs : LoginUserExists(p)
    \/ \E p \in Procs : LoginUpdate(p)
    \/ \E p \in Procs : LoginStore(p)
    \/ \E p \in Procs : RegNumber(p)
    \/ \E p \in Procs : RegInsert(p)
    \/ \E p \in Procs : VerifyReceive(p)
    \/ \E p \in Procs : VerifyGate(p)
    \/ \E p \in Procs : VerifyOtp(p)
    \/ \E p \in Procs : VerifyGetUser(p)
    \/ \E p \in Procs : VerifyUserStatus(p)
    \/ \E p \in Procs : VerifyRecord(p)
    \/ \E p \in Procs : StoreUserRegistrationEvent(p)
    \/ \E p \in Procs : StoreConnectionErrorEvent(p)
    \/ SweepCall
    \/ Sweep
    \/ \E p \in Procs : SetProfile(p)
    \/ \E p \in Procs : LanguageReceive(p)
    \/ \E p \in Procs : LanguageSession(p)
    \/ \E p \in Procs : LanguageGetUser(p)
    \/ \E p \in Procs : LanguageUpdate(p)
    \/ \E p \in Procs : Sleep(p)
    \/ UpdateUserFcmToken
    \/ UpdateUserProfile
    \/ UpdateUserProfileInRegister
    \/ \E p \in Procs : GenerateUniqueReferralCodeCall(p)
    \/ \E p \in Procs : GenerateUniqueReferralCode(p)
    \/ StoreUserRegisterEvent
    \/ StoreLoginSuccessEvent
    \/ StoreOtpVerificationEvent

\* the clock of the credential service moves to a later instant
JwtClock ==
    /\ \E t \in JwtInstants : t > now /\ now' = t
    /\ emitted' = NoEmit /\ lastCall' = NoCall
    /\ UNCHANGED <<users, user_counter, uuid_seq, challenges, attempts, pc,
                   loc, faults, budget, nLogins, nRestarts, lostAttempts,
                   issued, issuedNumbers, runStartedEmpty, sweep_clock>>

\* jwt.rs generate_token: a token is minted now, with a fresh jti
GenerateToken ==
    /\ budget.tokens > 0
    /\ \E i \in JwtInputs(budget.users) :
         LET token == JwtService_generate_token(SECRET_KEY, i.user_id, i.user_number, i.mobile_no, i.device_id, i.fcm_token, now, uuid_seq + 1)
             mint == [token |-> token, user_id |-> i.user_id,
                      user_number |-> i.user_number,
                      mobile_no |-> i.mobile_no, device_id |-> i.device_id,
                      fcm_token |-> i.fcm_token]
         IN /\ issued' = issued \cup {mint}
            /\ lastCall' = [NoCall EXCEPT !.op = "generate_token", !.t = now,
                                          !.jwt.token = token,
                                          !.jwt.minted = mint,
                                          !.jwt.ok = TRUE]
    /\ uuid_seq' = uuid_seq + 1
    /\ budget' = [budget EXCEPT !.tokens = @ - 1]
    /\ emitted' = NoEmit
    /\ UNCHANGED <<now, users, user_counter, challenges, attempts, pc, loc,
                   faults, nLogins, nRestarts, lostAttempts, issuedNumbers,
                   runStartedEmpty, sweep_clock>>

\* jwt.rs verify_token on a minted token or on what a client makes of it
VerifyToken ==
    /\ \E mint \in issued : \E token \in Presented(mint.token) :
         LET r == JwtService_verify_token(SECRET_KEY, token, budget.leeway, now)
         IN lastCall' = [NoCall EXCEPT !.op = "verify_token", !.t = now,
                                       !.jwt.token = token,
                                       !.jwt.minted = mint,
                                       !.jwt.ok = r.ok,
                                       !.jwt.claims = r.claims,
                                       !.jwt.error = r.error]
    /\ emitted' = NoEmit
    /\ UNCHANGED <<now, users, user_counter, uuid_seq, challenges, attempts,
                   pc, loc, faults, budget, nLogins, nRestarts, lostAttempts,
                   issued, issuedNumbers, runStartedEmpty, sweep_clock>>

\* jwt.rs verify_token_with_device_check, the expected values from the caller
VerifyTokenWithDeviceCheck ==
    /\ \E mint \in issued : \E token \in Presented(mint.token) :
       \E expected_device_id \in {i.device_id : i \in JwtInputs(JwtUsers)}, expected_mobile_no \in {i.mobile_no : i \in JwtInputs(JwtUsers)} :
         LET r == JwtService_verify_token_with_device_check(SECRET_KEY, token, expected_device_id, expected_mobile_no, budget.leeway, now)
         IN lastCall' = [NoCall EXCEPT !.op = "verify_token_with_device_check",
                                       !.t = now,
                                       !.jwt.token = token,
                                       !.jwt.minted = mint,
                                       !.jwt.expected_device_id = expected_device_id,
                                       !.jwt.expected_mobile_no = expected_mobile_no,
                                       !.jwt.ok = r.ok,
                                       !.jwt.claims = r.claims,
                                       !.jwt.error = r.error]
    /\ emitted' = NoEmit
    /\ UNCHANGED <<now, users, user_counter, uuid_seq, challenges, attempts,
                   pc, loc, faults, budget, nLogins, nRestarts, lostAttempts,
                   issued, issuedNumbers, runStartedEmpty, sweep_clock>>

\* jwt.rs 114-125, 141-145: the clock is read a second time, at the same or
\* at a later instant, only when verify_token accepted the token at the
\* first reading (the ? returns before it otherwise)
SecondReadings(token) ==
    IF JwtService_verify_token(SECRET_KEY, token, budget.leeway, now).ok
    THEN {t \in JwtInstants : t >= now}
    ELSE {now}

\* jwt.rs is_token_expired on a minted token or on what a client makes of it:
\* decode reads the clock (now), and when the token is accepted the clock is
\* read once more (t2), at the same or at a later instant
IsTokenExpired ==
    /\ \E mint \in issued : \E token \in Presented(mint.token) :
       \E t2 \in SecondReadings(token) :
         LET r == JwtService_is_token_expired(SECRET_KEY, token, budget.leeway, now, t2)
         IN /\ lastCall' = [NoCall EXCEPT !.op = "is_token_expired",
                                          !.t = now,
                                          !.jwt.token = token,
                                          !.jwt.minted = mint,
                                          !.jwt.ok = r.ok,
                                          !.jwt.error = r.error,
                                          !.result = IF ~r.ok THEN "Err"
                                                     ELSE IF r.value THEN "Ok(true)"
                                                     ELSE "Ok(false)"]
            /\ now' = IF r.ok THEN t2 ELSE now
    /\ emitted' = NoEmit
    /\ UNCHANGED <<users, user_counter, uuid_seq, challenges, attempts,
                   pc, loc, faults, budget, nLogins, nRestarts, lostAttempts,
                   issued, issuedNumbers, runStartedEmpty, sweep_clock>>

\* jwt.rs refresh_token on a minted token or on what a client makes of it:
\* verify_token(old_token)? at the clock reading of decode (now), then
\* generate_token with the claims of the old token, which reads the clock
\* itself (t2) and draws a fresh jti
RefreshToken ==
    /\ budget.refreshes > 0
    /\ \E mint \in issued : \E old_token \in Presented(mint.token) :
       \E t2 \in SecondReadings(old_token) :
         LET r == JwtService_verify_token(SECRET_KEY, old_token, budget.leeway, now)
             c == r.claims
             token == JwtService_generate_token(SECRET_KEY, c.sub, c.user_number, c.mobile_no, c.device_id, c.fcm_token, t2, uuid_seq + 1)
             refreshed == [token |-> token, user_id |-> c.sub,
                           user_number |-> c.user_number,
                           mobile_no |-> c.mobile_no,
                           device_id |-> c.device_id,
                           fcm_token |-> c.fcm_token]
         IN IF r.ok
            THEN /\ issued' = issued \cup {refreshed}
                 /\ uuid_seq' = uuid_seq + 1
                 /\ now' = t2
                 /\ lastCall' = [NoCall EXCEPT !.op = "refresh_token",
                                               !.t = now,
                                               !.jwt.token = old_token,
                                               !.jwt.minted = refreshed,
                                               !.jwt.ok = TRUE,
                                               !.jwt.claims = c]
            ELSE /\ UNCHANGED <<issued, uuid_seq, now>>
                 /\ lastCall' = [NoCall EXCEPT !.op = "refresh_token",
                                               !.t = now,
                                               !.jwt.token = old_token,
                                               !.jwt.ok = FALSE,
                                               !.jwt.error = r.error]
    /\ budget' = [budget EXCEPT !.refreshes = @ - 1]
    /\ emitted' = NoEmit
    /\ UNCHANGED <<users, user_counter, challenges, attempts, pc, loc,
                   faults, nLogins, nRestarts, lostAttempts, issuedNumbers,
                   runStartedEmpty, sweep_clock>>

NextJwt ==
    \/ JwtClock
    \/ IsTokenExpired
    \/ GenerateToken
    \/ RefreshToken
    \/ VerifyToken
    \/ VerifyTokenWithDeviceCheck

\* login and set:language
NextLanguage ==
    \/ \E p \in Procs : LoginReceive(p)
    \/ \E p \in Procs : LoginUserExists(p)
    \/ \E p \in Procs : LoginStore(p)
    \/ \E p \in Procs : RegNumber(p)
    \/ \E p \in Procs : RegInsert(p)
    \/ \E p \in Procs : LanguageReceive(p)
    \/ \E p \in Procs : LanguageSession(p)
    \/ \E p \in Procs : LanguageGetUser(p)
    \/ \E p \in Procs : LanguageUpdate(p)
    \/ \E p \in Procs : StoreConnectionErrorEvent(p)
    \/ \E p \in Procs : Sleep(p)
    \/ Tick

\* one run of the server process, verification workload
Spec == Init /\ [][Next]_vars
\* one run of the server process, registration workload
SpecUsers == InitUsers /\ [][Next]_vars
\* one run of the server process, session workload
SpecSessions == InitSessions /\ [][Next]_vars
\* one run of the server process, any of the three workloads
SpecAll == (Init \/ InitUsers \/ InitSessions) /\ [][Next]_vars
\* the server process may be restarted; the store persists
SpecRestart == InitUsers /\ [][NextRestart]_vars
\* one run in which every store call and the signing may fail
SpecFaults == InitFaults /\ [][Next]_vars
\* one run of the server process with all its handlers, and the service
\* operations that no handler reaches called directly
SpecService == InitService /\ [][NextService]_vars
\* one run of the server process, set:language workload
SpecLanguage == InitLanguage /\ [][NextLanguage]_vars
SpecJwt == InitJwt /\ [][NextJwt]_vars

\* ================================================================ claims

Pairs == Mobiles \X Tokens
IssuedPairs == {<<c.mobile_no, c.session_token>> : c \in issued}
StoredFor(mobile_no, session_token) ==
    {i \in DOMAIN challenges :
        /\ challenges[i].mobile_no = mobile_no
        /\ challenges[i].session_token = session_token}
Verifying == lastCall.op = "verify_otp"
RegInFlight == {p \in Procs : pc[p] = "reg_insert"}

\* C1: for every (mobile_no, session_token) the number of stored
\* VerificationAttempt records never exceeds MAX_ATTEMPTS (5), also when
\* several verify:otp requests for the pair are handled concurrently.
C1_AttemptsNeverExceedCeiling ==
    \A pr \in Pairs :
        get_verification_attempts_count(pr[1], pr[2]) <= MAX_ATTEMPTS

\* C2: a verify:otp request that starts when 5 attempts are recorded for its
\* pair stops at the gate: it never reaches the lookup, the comparison or
\* the attempt insert; past the gate it only waits to send the
\* RATE_LIMIT_EXCEEDED it has built, and that is what it sends, whatever
\* code it carries.
C2_SaturatedRequestIsRateLimited ==
    /\ \A p \in Procs : loc[p].saturated =>
          /\ pc[p] \in {"v_gate", "error_event"}
          /\ loc[p].vres = "none"
          /\ pc[p] = "error_event" =>
                /\ loc[p].response.event = "otp:verification_failed"
                /\ loc[p].response.error_code = "RATE_LIMIT_EXCEEDED"
    /\ emitted.ctx.saturated =>
        /\ emitted.event = "otp:verification_failed"
        /\ emitted.error_code = "RATE_LIMIT_EXCEEDED"
        /\ emitted.ctx.vres = "none"

\* five wrong codes were recorded, the challenge is stored and not expired,
\* and the sixth request, carrying the right code, was answered with
\* RATE_LIMIT_EXCEEDED
C2_Witness ==
    /\ emitted.error_code = "RATE_LIMIT_EXCEEDED"
    /\ emitted.ctx.saturated
    /\ \A e \in DOMAIN attempts : ~e.is_success
    /\ LET ev == find_login_success_by_mobile_and_session(
                     emitted.ctx.mobile_no, emitted.ctx.session_token) IN
        /\ ev # NoEvent
        /\ now <= ev.expires_at
        /\ emitted.ctx.provided_otp = to_string(ev.otp)

\* C3: a credential is signed and otp:verified is emitted only by a
\* verify:otp request whose verify_otp returned Success, and verify_otp
\* returns Success only when a challenge stored for exactly the submitted
\* (mobile_no, session_token) carries the submitted code.
C3_MintOnlyAfterSuccess ==
    /\ \A p \in Procs : loc[p].jwt.signed =>
        loc[p].handler = "verify" /\ loc[p].vres = "Success"
    /\ emitted.event = "otp:verified" =>
        emitted.ctx.handler = "verify" /\ emitted.ctx.vres = "Success"
    /\ emitted.ctx.jwt.signed => emitted.event = "otp:verified"
    /\ \A p \in Procs : loc[p].vres = "Success" => loc[p].gate = "allowed"
    /\ (Verifying /\ lastCall.result = "Success") =>
        \E i \in StoredFor(lastCall.mobile_no, lastCall.session_token) :
            /\ challenges[i] = lastCall.event
            /\ lastCall.provided_otp = to_string(challenges[i].otp)

\* otp:verified went out with a signed credential
C3_Witness ==
    /\ emitted.event = "otp:verified"
    /\ emitted.ctx.jwt.signed
    /\ emitted.ctx.jwt.mobile_no = emitted.ctx.mobile_no

\* C4 as stated: for every challenge ever issued, a verify_otp for its pair
\* evaluated at now > expires_at with fewer than 5 attempts recorded
\* returns Expired, whatever happened since the issue.
C4_ExpiredWhateverHappened ==
    \A c \in issued :
        ( /\ Verifying
          /\ lastCall.mobile_no = c.mobile_no
          /\ lastCall.session_token = c.session_token
          /\ lastCall.count < MAX_ATTEMPTS
          /\ lastCall.t > c.expires_at ) => lastCall.result = "Expired"

\* C4: a verify_otp evaluated at now > expires_at of the challenge the
\* lookup returns yields Expired, with the right code as with a wrong one,
\* and the request then sends OTP_EXPIRED; when no challenge of the pair is
\* stored any more (the sweep deleted it) the result is NotFound.
C4_ExpiredWhileStored ==
    /\ Verifying =>
        LET hit == StoredFor(lastCall.mobile_no, lastCall.session_token) IN
        IF hit = {} THEN lastCall.result = "NotFound"
        ELSE lastCall.t > challenges[Min(hit)].expires_at =>
                lastCall.result = "Expired"
    /\ emitted.ctx.vres = "Expired" =>
        /\ emitted.event = "otp:verification_failed"
        /\ emitted.error_code = "OTP_EXPIRED"

\* the right code, submitted after the expiry, was answered with OTP_EXPIRED
C4_Witness ==
    /\ emitted.error_code = "OTP_EXPIRED"
    /\ \E c \in issued :
        /\ c.mobile_no = emitted.ctx.mobile_no
        /\ c.session_token = emitted.ctx.session_token
        /\ emitted.ctx.provided_otp = to_string(c.otp)

\* C5 as stated: no verify_otp evaluated at now >= expires_at of the
\* challenge it found returns Success, the instant now = expires_at included.
C5_UsableOnlyBeforeExpiry ==
    ( /\ Verifying
      /\ lastCall.event # NoEvent
      /\ lastCall.t >= lastCall.event.expires_at ) =>
        lastCall.result # "Success"

\* C5: no verify_otp evaluated at now > expires_at of the challenge it found
\* returns Success.
C5_UnusableAfterExpiry ==
    ( /\ Verifying
      /\ lastCall.event # NoEvent
      /\ lastCall.t > lastCall.event.expires_at ) =>
        lastCall.result # "Success"

\* the right code was refused by a verify_otp evaluated after the expiry
C5_Witness ==
    /\ Verifying
    /\ lastCall.event # NoEvent
    /\ lastCall.t > lastCall.event.expires_at
    /\ lastCall.provided_otp = to_string(lastCall.event.otp)
    /\ lastCall.result = "Expired"

\* C6: a verify:otp whose pair matches no stored challenge gets NotFound;
\* all a request that got NotFound still does is send SESSION_NOT_FOUND, so
\* it records no attempt; a pair that was never issued has no attempt
\* recorded and its gate never denies.
C6_UnknownPairNotCharged ==
    /\ \A pr \in Pairs \ IssuedPairs :
        get_verification_attempts_count(pr[1], pr[2]) = 0
    /\ (Verifying /\ StoredFor(lastCall.mobile_no, lastCall.session_token) = {})
        => /\ lastCall.result = "NotFound"
           /\ \E p \in Procs :
                /\ loc[p].vres = "NotFound"
                /\ loc[p].mobile_no = lastCall.mobile_no
                /\ loc[p].session_token = lastCall.session_token
    /\ \A p \in Procs : loc[p].vres = "NotFound" =>
          /\ pc[p] = "error_event"
          /\ loc[p].response.event = "otp:verification_failed"
          /\ loc[p].response.error_code = "SESSION_NOT_FOUND"
    /\ emitted.ctx.vres = "NotFound" =>
          /\ emitted.event = "otp:verification_failed"
          /\ emitted.error_code = "SESSION_NOT_FOUND"
    /\ ( /\ lastCall.op = "check_otp_attempts"
         /\ <<lastCall.mobile_no, lastCall.session_token>> \notin IssuedPairs )
        => lastCall.count = 0 /\ lastCall.result = "allowed"

\* a pair that was never issued was verified while a challenge of another
\* pair was stored, and the answer was SESSION_NOT_FOUND
C6_Witness ==
    /\ emitted.ctx.vres = "NotFound"
    /\ <<emitted.ctx.mobile_no, emitted.ctx.session_token>> \notin IssuedPairs
    /\ challenges # <<>>
    /\ BagCardinality(attempts) > 0
    /\ emitted.error_code = "SESSION_NOT_FOUND"

\* C7: the user store holds at most one User per mobile number.
C7_OneUserPerMobile ==
    \A i, j \in DOMAIN users :
        users[i].mobile_no = users[j].mobile_no => i = j

\* C8: within one process run no two register_new_user calls receive the
\* same sequence number.
C8_NumbersDistinctInRun ==
    \A i, j \in DOMAIN issuedNumbers :
        issuedNumbers[i] = issuedNumbers[j] => i = j

\* two registrations hold their numbers at the same time
C8_Witness ==
    /\ Cardinality(RegInFlight) = 2
    /\ \A p, q \in RegInFlight : loc[p].user_number = loc[q].user_number => p = q

\* C9: no two stored Users share a sequence number, also when the process
\* was restarted between their registrations.
C9_NumbersUniqueAcrossRestart ==
    \A i, j \in DOMAIN users :
        users[i].user_number = users[j].user_number => i = j

\* C10: in a process run that started with an empty user store, once no
\* registration is between its number and its insert, the numbers of the N
\* stored Users are exactly 1..N.
C10_NumbersContiguous ==
    (runStartedEmpty /\ RegInFlight = {}) =>
        {users[i].user_number : i \in DOMAIN users} = 1..Len(users)

\* two registrations interleaved so that the second number was stored first
C10_Witness ==
    /\ runStartedEmpty
    /\ RegInFlight = {}
    /\ Len(users) = 2
    /\ users[1].user_number = 2

\* C11: the identity of a stored User never changes and no User is deleted:
\* every step of every operation (login, verify:otp, set:profile,
\* set:language, update_user_login_info, update_user_fcm_token, the profile
\* updates, the sweep) leaves the Users already stored in place with their
\* mobile_no, user_id and user_number.
C11_IdentityFieldsNeverChange ==
    [][/\ Len(users') >= Len(users)
       /\ \A i \in DOMAIN users :
            /\ users'[i].mobile_no = users[i].mobile_no
            /\ users'[i].user_id = users[i].user_id
            /\ users'[i].user_number = users[i].user_number]_vars

\* a User that a second login, update_user_fcm_token and the profile updates
\* have written to
C11_Witness ==
    \E i \in DOMAIN users :
        /\ users[i].total_logins > 0
        /\ users[i].fcm_token = NewFcmToken
        /\ users[i].full_name # None
        /\ users[i].referral_code # None
        /\ users[i].user_id # UNKNOWN_USER_ID

\* C12: a LoginChallenge is verified at most once: after one verify:otp
\* request on it was answered otp:verified, no second request with the same
\* (mobile_no, session_token) and code is answered otp:verified with a second
\* credential.  Stated for behaviours with a single login, so that the pair
\* names one challenge.
C12_VerifiedAtMostOnce ==
    (/\ nLogins = 1
     /\ emitted.event = "otp:verified"
     /\ emitted.ctx.jwt.signed)
    => LET a == [mobile_no |-> emitted.ctx.mobile_no,
                 session_token |-> emitted.ctx.session_token,
                 is_success |-> TRUE]
       IN  CopiesIn(a, attempts) <= 1

\* C13: once a later login for the same mobile number has stored its
\* challenge, verify_otp on the earlier challenge (its token, its code) does
\* not return Success.
C13_LaterLoginDiscardsEarlier ==
    (Verifying /\ lastCall.result = "Success")
    => ~\E i, j \in DOMAIN challenges :
            /\ j < i
            /\ challenges[j] = lastCall.event
            /\ challenges[i].mobile_no = lastCall.mobile_no
            /\ challenges[i].session_token # lastCall.session_token

\* C14: no two stored LoginChallenges carry the same session_token.
C14_SessionTokensUnique ==
    \A i, j \in DOMAIN challenges :
        i # j => challenges[i].session_token # challenges[j].session_token

\* C15: in every reachable state, whatever the interleaving of the calls,
\* no two Users hold the same referral code, whether the code was supplied
\* by the caller or generated (check_referral_code_exists or
\* generate_unique_referral_code, then update_user_profile_in_register).  A
\* stored empty string is not counted as a code.
C15_ReferralCodesUnique ==
    \A i, j \in DOMAIN users :
        (i # j /\ users[i].referral_code \notin {None, ""})
        => users[i].referral_code # users[j].referral_code

\* C16: a set:profile request with a valid session whose referral_code some
\* User already holds is answered connection_error REFERRAL_CODE_EXISTS, and
\* nothing is written to userregister.
C16_HeldCodeIsRefused ==
    (/\ lastCall.op = "set:profile"
     /\ verify_session_and_mobile(lastCall.mobile_no, lastCall.session_token)
     /\ lastCall.profile.referral_code # None
     /\ check_referral_code_exists(lastCall.profile.referral_code))
    => /\ emitted.event = "connection_error"
       /\ emitted.error_code = "REFERRAL_CODE_EXISTS"
       /\ users = lastCall.before

\* C17: every stored non-empty referred_by names a referral code that some
\* stored User holds: a referred_by that no User holds is not written.
C17_ReferredByNamesAUser ==
    \A i \in DOMAIN users :
        users[i].referred_by \notin {None, ""}
        => \E j \in DOMAIN users :
                users[j].referral_code = users[i].referred_by

\* C18: every set:profile request is answered: when its handler has run, the
\* client has been sent profile:set or connection_error.
C18_SetProfileIsAnswered ==
    lastCall.op = "set:profile"
    => emitted.event \in {"profile:set", "connection_error"}

\* the first User stored for the mobile number of the last call, before it
Target == Min({i \in DOMAIN lastCall.before :
                    lastCall.before[i].mobile_no = lastCall.mobile_no})
TargetExists ==
    \E i \in DOMAIN lastCall.before :
        lastCall.before[i].mobile_no = lastCall.mobile_no

\* C19: update_user_profile(mobile_no, full_name) writes full_name only:
\* state, referral_code, referred_by, profile_data, the language fields,
\* user_id, user_number and total_logins of that User, and every other User,
\* are as before the call.
C19_NameUpdateWritesOnlyName ==
    lastCall.op = "update_user_profile"
    => IF TargetExists
       THEN users = [lastCall.before EXCEPT
                        ![Target].full_name = lastCall.profile.full_name]
       ELSE users = lastCall.before

\* the call renames a User that has a state, a referral code, a referrer and
\* profile data, while a second User is stored
C19_Witness ==
    /\ lastCall.op = "update_user_profile"
    /\ TargetExists
    /\ Len(users) = 2
    /\ users[Target].full_name # lastCall.before[Target].full_name
    /\ users[Target].state # None
    /\ users[Target].referral_code # None
    /\ users[Target].referred_by # None
    /\ users[Target].profile_data # None

\* C20: a set:language request that omits region_code, timezone or
\* user_preferences leaves the stored value of each omitted field as it was.
C20_OmittedFieldsKept ==
    (/\ lastCall.op = "update_user_language_in_register"
     /\ lastCall.result = "Ok"
     /\ TargetExists)
    => LET g == lastCall.language
           old == lastCall.before[Target]
           new == users[Target]
       IN  /\ g.region_code = None => new.region_code = old.region_code
           /\ g.timezone = None => new.timezone = old.timezone
           /\ g.user_preferences = None
                => new.user_preferences = old.user_preferences

\* C21: update_user_login_info on an existing User adds exactly 1 to its
\* login count, sets its last_login_at to the time of the call and sets it
\* active, and changes no other field of the record and no other User; with
\* no User of that mobile number it changes nothing.
C21_LoginInfoUpdate ==
    (lastCall.op = "update_user_login_info" /\ lastCall.result = "Ok")
    => IF TargetExists
       THEN users = [lastCall.before EXCEPT
                        ![Target].total_logins = @ + 1,
                        ![Target].is_active = TRUE,
                        ![Target].last_login_at = lastCall.t,
                        ![Target].last_login_date =
                            users[Target].last_login_date]
       ELSE users = lastCall.before


\* C22: verify_token applied, no later than its exp, to the token that
\* generate_token minted returns claims whose sub, user_number, mobile_no,
\* device_id and fcm_token are the minted inputs
C22_RoundTrip ==
    (/\ lastCall.op = "verify_token"
     /\ lastCall.jwt.token = lastCall.jwt.minted.token
     /\ lastCall.t <= lastCall.jwt.token.payload.exp)
    => /\ lastCall.jwt.ok
       /\ lastCall.jwt.claims.sub = lastCall.jwt.minted.user_id
       /\ lastCall.jwt.claims.user_number = lastCall.jwt.minted.user_number
       /\ lastCall.jwt.claims.mobile_no = lastCall.jwt.minted.mobile_no
       /\ lastCall.jwt.claims.device_id = lastCall.jwt.minted.device_id
       /\ lastCall.jwt.claims.fcm_token = lastCall.jwt.minted.fcm_token

\* a token minted at 0 is verified in the last minute of its lifetime
C22_Witness ==
    /\ lastCall.op = "verify_token"
    /\ lastCall.jwt.token = lastCall.jwt.minted.token
    /\ lastCall.jwt.token.payload.iat = 0
    /\ lastCall.t = TOKEN_EXPIRY_HOURS * 60 - 1
    /\ lastCall.jwt.ok
    /\ lastCall.jwt.claims.device_id # lastCall.jwt.claims.fcm_token


\* the token is well formed and carries the MAC of the service's secret
SignedByService(token) ==
    /\ token.segments = 3
    /\ token.alg = "HS256"
    /\ token.signature = hmac(SECRET_KEY, token.alg, token.payload)

\* C23: verify_token returns an error for every token evaluated later than
\* its exp, for every token signed with another secret and for every
\* malformed token; it returns claims only for a token signed with the
\* service's secret and not yet expired
C23_NeverPartiallyTrusts ==
    lastCall.op = "verify_token"
    => /\ lastCall.t > lastCall.jwt.token.payload.exp => ~lastCall.jwt.ok
       /\ lastCall.jwt.token.signature.key # SECRET_KEY => ~lastCall.jwt.ok
       /\ lastCall.jwt.token.segments # 3 => ~lastCall.jwt.ok
       /\ lastCall.jwt.ok
          => /\ SignedByService(lastCall.jwt.token)
             /\ lastCall.t <= lastCall.jwt.token.payload.exp


\* C24: verify_token_with_device_check returns claims only if verify_token
\* accepts the token and the claims carry the expected device id and the
\* expected mobile number; a token verify_token accepts, presented with
\* another device id or another mobile number, is rejected with an error
C24_DeviceCheck ==
    lastCall.op = "verify_token_with_device_check"
    => LET c == lastCall.jwt
           accepted == JwtService_verify_token(SECRET_KEY, c.token, budget.leeway, lastCall.t).ok
       IN /\ c.ok => /\ accepted
                     /\ c.claims = c.token.payload
                     /\ c.claims.device_id = c.expected_device_id
                     /\ c.claims.mobile_no = c.expected_mobile_no
          /\ (/\ accepted
              /\ \/ c.token.payload.device_id # c.expected_device_id
                 \/ c.token.payload.mobile_no # c.expected_mobile_no)
             => ~c.ok /\ c.error # ""

\* a token of the service, in its lifetime and presented with its own device
\* id, is rejected for the mobile number alone
C24_Witness ==
    /\ lastCall.op = "verify_token_with_device_check"
    /\ lastCall.jwt.token = lastCall.jwt.minted.token
    /\ lastCall.t < lastCall.jwt.token.payload.exp
    /\ lastCall.jwt.expected_device_id = lastCall.jwt.token.payload.device_id
    /\ lastCall.jwt.expected_mobile_no # lastCall.jwt.token.payload.mobile_no
    /\ ~lastCall.jwt.ok
    /\ lastCall.jwt.error = "Mobile number mismatch"


\* C25: a login, verify:otp, set:profile or set:language request whose
\* payload fails validation leaves the Users, the LoginChallenges and the
\* VerificationAttempts unchanged and is answered with an error event that
\* carries the validator's error_code: its task builds that response and,
\* without a write to the three stores, sends it as its last step
C25_InvalidPayloadRejected ==
    [][/\ (/\ lastCall'.op \in {"login", "verify:otp", "set:profile",
                                 "set:language"}
            /\ lastCall'.validation # "OK")
           => /\ UNCHANGED <<users, challenges, attempts>>
              /\ \E p \in Procs :
                    /\ pc[p] = "idle"
                    /\ pc'[p] = "error_event"
                    /\ loc'[p].response.event
                          \in {"connection_error", "otp:verification_failed"}
                    /\ loc'[p].response.error_code = lastCall'.validation
       /\ \A p \in Procs :
            (pc[p] = "error_event" /\ pc'[p] # "error_event")
            => /\ UNCHANGED <<users, challenges, attempts>>
               /\ pc'[p] = "idle"
               /\ emitted'.event = loc[p].response.event
               /\ emitted'.error_code = loc[p].response.error_code]_vars


\* C26: every otp:verification_failed event carries an error_code among
\* INVALID_OTP, OTP_EXPIRED, SESSION_NOT_FOUND and RATE_LIMIT_EXCEEDED
C26_FailureCodes ==
    emitted.event = "otp:verification_failed"
    => emitted.error_code \in {"INVALID_OTP", "OTP_EXPIRED",
                               "SESSION_NOT_FOUND", "RATE_LIMIT_EXCEEDED"}


\* C27: no otp:verified event carries an empty or missing jwt_token: a
\* verification whose signing failed is not answered with otp:verified
C27_VerifiedCarriesCredential ==
    emitted.event = "otp:verified" => emitted.ctx.jwt.signed


\* C28: the payload of a system-error response does not depend on the text
\* of the internal error: the run that differs only in that text sends the
\* same payload
C28_NoInternalTextOnTheWire ==
    emitted.error_code \in {"OTP_VERIFICATION_ERROR",
                            "SESSION_VERIFICATION_ERROR",
                            "REFERRAL_CODE_CHECK_ERROR"}
    => \A e \in ErrorTexts :
          system_error_response(emitted.event, emitted.error_code,
                                emitted.ctx, e) = emitted


\* C29: a verify:otp request that passed the gate records exactly one
\* attempt when verify_otp found the challenge, with is_success true exactly
\* for Success and false for Invalid and Expired, and records none when the
\* challenge is not found: the request that learns NotFound only sends its
\* answer, with the attempts as they were, the request that learns another
\* outcome goes on without a write to its insert, which adds its one
\* attempt, what follows the insert adds none, and nothing else adds an
\* attempt
C29_OneAttemptPerFoundChallenge ==
    [][/\ \A p \in Procs :
            LET l == loc[p] IN
            /\ (pc[p] = "v_verify" /\ pc'[p] # "v_verify")
               => /\ attempts' = attempts
                  /\ loc'[p].vres = lastCall'.result
                  /\ IF lastCall'.result = "NotFound"
                     THEN /\ pc'[p] = "error_event"
                          /\ loc'[p].response.error_code = "SESSION_NOT_FOUND"
                     ELSE /\ lastCall'.result \in {"Success", "Invalid",
                                                   "Expired"}
                          /\ pc'[p] \in {"v_user", "v_record"}
            /\ (/\ l.handler = "verify"
                /\ pc[p] \in {"v_user", "reg_number", "reg_insert",
                              "v_status"}
                /\ pc'[p] # pc[p])
               => /\ attempts' = attempts
                  /\ loc'[p].vres = l.vres
                  /\ pc'[p] \in {"reg_number", "reg_insert", "v_status",
                                 "v_record"}
            /\ (pc[p] = "v_record" /\ pc'[p] # "v_record")
               => /\ l.vres \in {"Success", "Invalid", "Expired"}
                  /\ attempts' = attempts (+) SetToBag({
                         [mobile_no |-> l.mobile_no,
                          session_token |-> l.session_token,
                          is_success |-> (l.vres = "Success")]})
                  /\ pc'[p] \in {"idle", "error_event", "registration_event"}
            /\ (/\ pc[p] \in {"error_event", "registration_event"}
                /\ pc'[p] # pc[p])
               => /\ attempts' = attempts
                  /\ pc'[p] = "idle"
       /\ attempts' # attempts
          => \E p \in Procs : pc[p] = "v_record" /\ pc'[p] # "v_record"]_vars

\* the fifth attempt of a pair was recorded for a request that carried the
\* right code after the challenge had expired: the pair is at its ceiling
\* with failed attempts only
C29_Witness ==
    /\ emitted.event = "otp:verification_failed"
    /\ emitted.error_code = "OTP_EXPIRED"
    /\ get_verification_attempts_count(emitted.ctx.mobile_no,
                                       emitted.ctx.session_token)
           = MAX_ATTEMPTS
    /\ \A e \in DOMAIN attempts : ~e.is_success
    /\ LET ev == find_login_success_by_mobile_and_session(
                     emitted.ctx.mobile_no, emitted.ctx.session_token) IN
        /\ ev # NoEvent
        /\ now > ev.expires_at
        /\ emitted.ctx.provided_otp = to_string(ev.otp)


\* C30: attempts are append-only, so no step removes or changes a stored
\* attempt and no pair's count decreases; and a request that comes to the
\* gate when the attempts stored for its pair number 5 or more builds the
\* answer RATE_LIMIT_EXCEEDED and sends it as its last step, without a
\* further write, whether or not a challenge of the pair is still stored
C30_AttemptsAppendOnly ==
    [][/\ \A e \in DOMAIN attempts :
            e \in DOMAIN attempts' /\ attempts'[e] >= attempts[e]
       /\ \A p \in Procs :
            LET l == loc[p]
                stored == {e \in DOMAIN attempts :
                              /\ e.mobile_no = l.mobile_no
                              /\ e.session_token = l.session_token}
            IN (/\ pc[p] = "v_gate"
                /\ pc'[p] # "v_gate"
                /\ BagCardinality([e \in stored |-> attempts[e]])
                       >= MAX_ATTEMPTS)
               => /\ pc'[p] = "error_event"
                  /\ loc'[p].response.event = "otp:verification_failed"
                  /\ loc'[p].response.error_code = "RATE_LIMIT_EXCEEDED"
                  /\ attempts' = attempts
       /\ \A p \in Procs :
            (pc[p] = "error_event" /\ pc'[p] # "error_event")
            => /\ emitted'.event = loc[p].response.event
               /\ emitted'.error_code = loc[p].response.error_code
               /\ pc'[p] = "idle"
               /\ attempts' = attempts]_vars

\* the challenge of a pair with five stored attempts has been swept, and a
\* later request for the pair was answered RATE_LIMIT_EXCEEDED
C30_Witness ==
    /\ emitted.event = "otp:verification_failed"
    /\ emitted.error_code = "RATE_LIMIT_EXCEEDED"
    /\ BagCardinality(attempts) = MAX_ATTEMPTS
    /\ \A e \in DOMAIN attempts :
          /\ e.mobile_no = emitted.ctx.mobile_no
          /\ e.session_token = emitted.ctx.session_token
    /\ challenges = <<>>
    /\ now > OTP_LIFETIME_MINUTES


\* C31: a set:language request goes on to the user store only if a
\* LoginChallenge stored for exactly its mobile_no and session_token exists
\* when its session is checked, verified or not and expired or not; when
\* none exists it builds the answer INVALID_SESSION and sends it as its last
\* step, and the check and the sending leave the Users as they were
C31_LanguageNeedsStoredLogin ==
    [][\A p \in Procs :
          LET l == loc[p]
              stored == \E i \in 1 .. Len(challenges) :
                            /\ challenges[i].mobile_no = l.mobile_no
                            /\ challenges[i].session_token = l.session_token
          IN /\ (pc[p] = "g_session" /\ pc'[p] # "g_session")
                => /\ users' = users
                   /\ emitted'.event = "none"
                   /\ IF stored
                      THEN pc'[p] = "g_user"
                      ELSE /\ pc'[p] = "error_event"
                           /\ loc'[p].response.event = "connection_error"
                           /\ loc'[p].response.error_code = "INVALID_SESSION"
             /\ (pc[p] = "error_event" /\ pc'[p] # "error_event")
                => /\ users' = users
                   /\ pc'[p] = "idle"
                   /\ emitted'.event = l.response.event
                   /\ emitted'.error_code = l.response.error_code
             /\ (/\ l.handler = "language"
                 /\ pc'[p] # pc[p]
                 /\ users' # users)
                => stored]_vars

\* language:set answers a request whose challenge was never verified and
\* has expired, and the User carries the requested language
C31_Witness ==
    /\ emitted.event = "language:set"
    /\ lastCall.op = "update_user_language_in_register"
    /\ lastCall.result = "Ok"
    /\ attempts = EmptyBag
    /\ LET ev == find_login_success_by_mobile_and_session(
                     lastCall.mobile_no, lastCall.session_token) IN
        /\ ev # NoEvent
        /\ now > ev.expires_at
    /\ TargetExists
    /\ users[Target].language_code = lastCall.language.language_code
    /\ users # lastCall.before


\* C32: generate_unique_referral_code makes at most 10 existence checks:
\* each check either returns the candidate, a 6-character code that no User
\* holds at that moment, or counts one more taken candidate; a tenth taken
\* candidate ends the call with an error, and the call never goes on past it
C32_GenerationBounded ==
    [][\A p \in Procs :
          LET l == loc[p]
              held == {users[i].referral_code : i \in DOMAIN users}
          IN (pc[p] = "generate" /\ loc'[p] # l)
             => /\ l.generate_attempts < 10
                /\ \/ /\ pc'[p] = "idle"
                      /\ lastCall'.op = "generate_unique_referral_code"
                      /\ lastCall'.result = "Ok"
                      /\ lastCall'.profile.referral_code \notin held
                      /\ Len(lastCall'.profile.referral_code) = 6
                      /\ lastCall'.count = l.generate_attempts + 1
                   \/ /\ pc'[p] = "generate"
                      /\ loc'[p].generate_attempts = l.generate_attempts + 1
                      /\ loc'[p].generate_attempts < 10
                      /\ held \ {None, ""} # {}
                   \/ /\ pc'[p] = "idle"
                      /\ l.generate_attempts = 9
                      /\ held \ {None, ""} # {}
                      /\ lastCall'.op = "generate_unique_referral_code"
                      /\ lastCall'.result =
                            "Failed to generate unique referral code after maximum attempts"
                      /\ lastCall'.count = 10]_vars

\* ten candidates in a row were held by a User: the call ended with the
\* error after its tenth check
C32_Witness ==
    /\ lastCall.op = "generate_unique_referral_code"
    /\ lastCall.result =
            "Failed to generate unique referral code after maximum attempts"
    /\ lastCall.count = 10
    /\ \E i \in DOMAIN users : users[i].referral_code \notin {None, ""}


\* C33: the sweep that read the clock as now deletes exactly the challenges
\* with expires_at < now and returns their number; it leaves every other
\* challenge, every attempt and every User as they were; and no other step
\* removes or changes a stored challenge
C33_SweepFrame ==
    [][IF lastCall'.op = "cleanup_expired_otp_sessions"
       THEN LET live == {i \in 1 .. Len(challenges) :
                            challenges[i].expires_at >= lastCall'.t}
            IN /\ Len(challenges') = Cardinality(live)
               /\ \A i \in live :
                     challenges'[Cardinality({j \in live : j <= i})]
                         = challenges[i]
               /\ lastCall'.count = Len(challenges) - Cardinality(live)
               /\ UNCHANGED <<users, attempts>>
       ELSE /\ Len(challenges') >= Len(challenges)
            /\ \A i \in 1 .. Len(challenges) : challenges'[i] = challenges[i]]_vars

\* a sweep deleted an expired challenge and kept one that had not expired
C33_Witness ==
    /\ lastCall.op = "cleanup_expired_otp_sessions"
    /\ lastCall.count >= 1
    /\ challenges # <<>>
    /\ attempts # EmptyBag
    /\ users # <<>>


\* C34: every stored challenge has expires_at = timestamp + 30 minutes, the
\* timestamp being the one clock reading of the login that inserts it, and
\* no step changes a stored challenge: a step leaves the challenges as they
\* are, appends one, or removes some and keeps the others as they were and
\* in their order
C34_ExpiryIsIssuedPlusLifetime ==
    [][/\ \A i \in 1 .. Len(challenges') :
            challenges'[i].expires_at = challenges'[i].timestamp + 30
       /\ \/ challenges' = challenges
          \/ /\ Len(challenges') = Len(challenges) + 1
             /\ SubSeq(challenges', 1, Len(challenges)) = challenges
             /\ \E p \in Procs :
                   /\ pc[p] = "l_store" /\ pc'[p] = "idle"
                   /\ challenges'[Len(challenges')].timestamp = loc[p].clock
          \/ /\ Len(challenges') < Len(challenges)
             /\ challenges' = SelectSeq(challenges,
                    LAMBDA c : \E i \in 1 .. Len(challenges') :
                                  challenges'[i] = c)]_vars

\* two challenges issued at different times are stored, one of them expired
C34_Witness ==
    /\ Len(challenges) = 2
    /\ challenges[1].timestamp < challenges[2].timestamp
    /\ challenges[1].expires_at < now
    /\ challenges[2].expires_at = challenges[2].timestamp + 30


\* C35: the rate-limit gate fails closed: a verify:otp request is past the
\* gate, and otp:verified is sent, only when the attempt count was read and
\* was below the ceiling
C35_GateFailsClosed ==
    /\ \A p \in Procs :
          (loc[p].handler = "verify" /\ pc[p] \notin {"v_gate", "error_event"})
          => loc[p].gate = "allowed"
    /\ \A p \in Procs : loc[p].vres # "none" => loc[p].gate = "allowed"
    /\ emitted.event = "otp:verified" => emitted.ctx.gate = "allowed"

\* C36: the user_id and user_number of every otp:verified, and the sub and
\* user_number of its credential, are those of a User stored for the
\* request's mobile_no, never the placeholder identity with number 0
C36_VerifiedNamesStoredUser ==
    emitted.event = "otp:verified"
    => /\ \E i \in DOMAIN users :
            /\ users[i].mobile_no = emitted.ctx.mobile_no
            /\ users[i].user_id = emitted.ctx.user_id
            /\ users[i].user_number = emitted.ctx.user_number
       /\ emitted.ctx.jwt.signed
          => /\ emitted.ctx.jwt.sub = emitted.ctx.user_id
             /\ emitted.ctx.jwt.user_number = emitted.ctx.user_number
       /\ ~(/\ emitted.ctx.jwt.sub = UNKNOWN_USER_ID
            /\ emitted.ctx.jwt.user_number = UNKNOWN_USER_NUMBER)

\* C37: when login:success is sent, a LoginChallenge with its mobile_no,
\* session_token and otp is stored
C37_LoginSuccessHasChallenge ==
    emitted.event = "login:success"
    => \E i \in 1 .. Len(challenges) :
          /\ challenges[i].mobile_no = emitted.ctx.mobile_no
          /\ challenges[i].session_token = emitted.ctx.session_token
          /\ challenges[i].otp = emitted.ctx.otp


\* C38: when set:profile is handled for a request that supplies no
\* referral_code (the key absent or empty) and whose User already holds a
\* referral code, the stored referral_code of that User, and of every other
\* User, is the same before and after
C38_ReferralCodeStable ==
    (/\ lastCall.op = "set:profile"
     /\ lastCall.profile.referral_code \in {None, ""}
     /\ TargetExists
     /\ lastCall.before[Target].referral_code # None)
    => /\ Len(users) = Len(lastCall.before)
       /\ \A i \in DOMAIN users :
            users[i].referral_code = lastCall.before[i].referral_code

\* a request with a valid payload and a stored login, without a
\* referral_code, for a User that holds a code
C38_Witness ==
    /\ lastCall.op = "set:profile"
    /\ lastCall.validation = "OK"
    /\ verify_session_and_mobile(lastCall.mobile_no, lastCall.session_token)
    /\ lastCall.profile.referral_code = None
    /\ TargetExists
    /\ users[Target].referral_code \notin {None, ""}
    /\ users[Target].referral_code = lastCall.before[Target].referral_code


\* C39: the sweep and verify_otp agree on expiry: a sweep deletes a stored
\* challenge exactly when verify_otp at the instant the sweep read the clock
\* calls it Expired,
\* so it deletes none that verify_otp would still answer Success for, and
\* a pair and code that verify_otp answers Success for before the sweep are
\* answered Success after it
C39_SweepAgreesWithVerify ==
    [][lastCall'.op = "cleanup_expired_otp_sessions"
       => /\ \A i \in 1 .. Len(challenges) :
               LET c == challenges[i]
                   deleted == ~\E j \in 1 .. Len(challenges') :
                                  challenges'[j] = c
               IN /\ deleted <=> verify_otp(c, lastCall'.t, to_string(c.otp))
                                    = "Expired"
                  /\ deleted => verify_otp(c, now, to_string(c.otp)) # "Success"
          /\ \A i \in 1 .. Len(challenges), o \in OtpStrings :
               LET m == challenges[i].mobile_no
                   t == challenges[i].session_token
                   kept == {j \in 1 .. Len(challenges') :
                               /\ challenges'[j].mobile_no = m
                               /\ challenges'[j].session_token = t}
                   found == IF kept = {} THEN NoEvent
                            ELSE challenges'[Min(kept)]
               IN verify_otp(find_login_success_by_mobile_and_session(m, t),
                             now, o) = "Success"
                  => verify_otp(found, now, o) = "Success"]_vars

\* a sweep deleted an expired challenge and kept the one that expires at
\* this very instant, for which verify_otp still answers Success
C39_Witness ==
    /\ lastCall.op = "cleanup_expired_otp_sessions"
    /\ lastCall.count >= 1
    /\ lastCall.t = now
    /\ \E i \in 1 .. Len(challenges) :
          /\ challenges[i].expires_at = now
          /\ verify_otp(challenges[i], now, to_string(challenges[i].otp))
                = "Success"


\* C40: is_token_expired returns Ok(true) for every token signed with the
\* service's secret whose exp lies in the past (already when the call
\* starts) and Ok(false) for one whose exp lies in the future (still when
\* the call returns), and Err only for a token that is malformed or not
\* signed with the service's secret
C40_IsTokenExpired ==
    lastCall.op = "is_token_expired"
    => LET token == lastCall.jwt.token IN
       /\ (SignedByService(token) /\ token.payload.exp < lastCall.t)
          => lastCall.result = "Ok(true)"
       /\ (SignedByService(token) /\ token.payload.exp > now)
          => lastCall.result = "Ok(false)"
       /\ lastCall.result = "Err" => ~SignedByService(token)

====
